---- MODULE Spec2Model ----
(***************************************************************************)
(* Model of package vast (src/vast.go): the VAST document types and the    *)
(* XML codec that encoding/xml derives from their struct tags.             *)
(*                                                                         *)
(* The package holds data definitions only; a Document is encoded with     *)
(* xml.Marshal and decoded with xml.Unmarshal, whose behaviour is fixed by *)
(* the field order, field kinds (value, pointer, slice, pointer to slice)  *)
(* and tags (attr, cdata, chardata, omitempty, a>b paths) of the structs.  *)
(* Each EncodeX / DecodeX below is the translation of one struct's tags.   *)
(*                                                                         *)
(* Fields modelled per struct are listed at its zero value; the fields     *)
(* left out are independent siblings (own element or attribute name) of    *)
(* the ones kept.                                                          *)
(***************************************************************************)
EXTENDS Integers, Sequences, FiniteSets, TLC

VARIABLES
    doc,     \* the Document (VAST value) the caller holds
    wire,    \* the XML element tree last produced or received, None if none
    orig,    \* the Document that was handed to Marshal, None if none
    err,     \* result of the last codec call: "nil" or an error kind
    op,      \* the last operation: "new", "build", "Marshal", "Receive", "Unmarshal"
    steps,   \* number of builder steps taken on doc
    text,    \* value types: the literal handed to ParseDuration / ParseOffset
    val,     \* value types: the parsed value, None if none
    verr,    \* value types: result of the last parse
    out,     \* value types: the literal rendered from val, None if none
    vop,     \* value types: the last operation
    calls,   \* concurrent callers: per goroutine, the codec call it is in
    buf      \* concurrent callers: per call, the working state of the codec

vars == <<doc, wire, orig, err, op, steps, text, val, verr, out, vop, calls, buf>>

codecVars == <<doc, wire, orig, err, op, steps>>
valueVars == <<text, val, verr, out, vop>>
callVars == <<calls, buf>>

-----------------------------------------------------------------------------
(* Bounds *)

MaxAds == 1        \* Ads appended to a built Document
MaxSteps == 4      \* builder steps on a Document
MaxItems == 1      \* items appended to one list below an Ad
MaxKids == 2       \* child elements of a received <Ad>
MaxShort == 3      \* length of the short literals handed to the parsers
MaxList == 2       \* items of one list of a sample Document
MaxThreads == 2    \* goroutines calling the codec at the same time

-----------------------------------------------------------------------------
(* Go values *)

\* A pointer (or any nullable holder): nil, or the value it points to.
None == <<>>
Some(x) == <<x>>
IsNil(p) == p = <<>>
Deref(p) == p[1]

\* A slice: Go tells a nil slice from an empty non-nil one; both have length 0.
NilSlice == [nil |-> TRUE, items |-> <<>>]
EmptySlice == [nil |-> FALSE, items |-> <<>>]
SliceOf(s) == [nil |-> FALSE, items |-> s]
AppendSlice_Front(sl, x) == [nil |-> FALSE, items |-> <<x>> \o sl.items]

AppendSlice(sl, x) == [nil |-> FALSE, items |-> Append(sl.items, x)]

-----------------------------------------------------------------------------
(* XML element trees: the tokens encoding/xml writes and reads *)

Attr(n, v) == [name |-> n, value |-> v]
Elem(n, attrs, body) == [kind |-> "elem", name |-> n, attrs |-> attrs, body |-> body]
CData(s) == [kind |-> "cdata", text |-> s]
Chars(s) == [kind |-> "chars", text |-> s]

IsElem(n) == n.kind = "elem"
IsText(n) == n.kind \in {"cdata", "chars"}

\* The value of attribute n of element e, None when e has no such attribute.
RECURSIVE AttrOf(_, _)
AttrOf(attrs, n) ==
    IF attrs = <<>> THEN None
    ELSE IF Head(attrs).name = n THEN Some(Head(attrs).value)
    ELSE AttrOf(Tail(attrs), n)

\* The character data directly below an element: encoding/xml appends every
\* CharData token of the element, CDATA sections included, to one buffer.
RECURSIVE TextOf(_)
TextOf(body) ==
    IF body = <<>> THEN ""
    ELSE IF IsText(Head(body)) THEN Head(body).text \o TextOf(Tail(body))
    ELSE TextOf(Tail(body))

\* The child elements of a body, in document order.
RECURSIVE ElemsOf(_)
ElemsOf(body) ==
    IF body = <<>> THEN <<>>
    ELSE IF IsElem(Head(body)) THEN <<Head(body)>> \o ElemsOf(Tail(body))
    ELSE ElemsOf(Tail(body))

-----------------------------------------------------------------------------
(* Value types: Duration and Offset.  A literal is a sequence of characters. *)

Digits == {"0", "1", "2", "3", "4", "5", "6", "7", "8", "9"}

DigitVal(c) ==
    CASE c = "0" -> 0 [] c = "1" -> 1 [] c = "2" -> 2 [] c = "3" -> 3 [] c = "4" -> 4
      [] c = "5" -> 5 [] c = "6" -> 6 [] c = "7" -> 7 [] c = "8" -> 8 [] c = "9" -> 9

DigitChar(n) ==
    CASE n = 0 -> "0" [] n = 1 -> "1" [] n = 2 -> "2" [] n = 3 -> "3" [] n = 4 -> "4"
      [] n = 5 -> "5" [] n = 6 -> "6" [] n = 7 -> "7" [] n = 8 -> "8" [] n = 9 -> "9"

AllDigits(t) == \A i \in 1..Len(t) : t[i] \in Digits

\* The number a run of digits denotes.
RECURSIVE NumberOf(_)
NumberOf(t) ==
    IF t = <<>> THEN 0
    ELSE NumberOf(SubSeq(t, 1, Len(t) - 1)) * 10 + DigitVal(t[Len(t)])

\* The decimal digits of n, without padding.
RECURSIVE DigitsOf(_)
DigitsOf(n) ==
    IF n < 10 THEN <<DigitChar(n)>> ELSE DigitsOf(n \div 10) \o <<DigitChar(n % 10)>>

Pad2(n) == <<DigitChar((n \div 10) % 10), DigitChar(n % 10)>>
Pad3(n) == <<DigitChar((n \div 100) % 10), DigitChar((n \div 10) % 10), DigitChar(n % 10)>>

\* HH:MM:SS
IsHMS(t) ==
    /\ Len(t) = 8
    /\ t[3] = ":" /\ t[6] = ":"
    /\ \A i \in {1, 2, 4, 5, 7, 8} : t[i] \in Digits

\* HH:MM:SS.mmm
IsHMSm(t) ==
    /\ Len(t) = 12
    /\ IsHMS(SubSeq(t, 1, 8))
    /\ t[9] = "."
    /\ \A i \in {10, 11, 12} : t[i] \in Digits

\* A Duration keeps hours, minutes, seconds and milliseconds, and whether the
\* literal carried the .mmm part (the precision it was given).
DurationOf(t) ==
    [h |-> NumberOf(SubSeq(t, 1, 2)), m |-> NumberOf(SubSeq(t, 4, 5)),
     s |-> NumberOf(SubSeq(t, 7, 8)),
     ms |-> IF Len(t) = 12 THEN NumberOf(SubSeq(t, 10, 12)) ELSE 0,
     frac |-> Len(t) = 12]

ParseDuration(t) ==
    IF IsHMS(t) \/ IsHMSm(t)
    THEN [err |-> "nil", v |-> Some(DurationOf(t))]
    ELSE [err |-> "InvalidFormat", v |-> None]

RenderDuration_DropZeroMs(d) ==
    Pad2(d.h) \o <<":">> \o Pad2(d.m) \o <<":">> \o Pad2(d.s)
        \o (IF d.ms # 0 THEN <<".">> \o Pad3(d.ms) ELSE <<>>)

RenderDuration(d) ==
    Pad2(d.h) \o <<":">> \o Pad2(d.m) \o <<":">> \o Pad2(d.s)
        \o (IF d.frac THEN <<".">> \o Pad3(d.ms) ELSE <<>>)

\* Seconds and milliseconds a Duration stands for.
Seconds(d) == d.h * 3600 + d.m * 60 + d.s

\* <number>% : digits, optionally followed by a dot and more digits, then %.
DotAt(t) == {i \in 1..Len(t) : t[i] = "."}

IsPercent(t) ==
    /\ Len(t) >= 2
    /\ t[Len(t)] = "%"
    /\ LET num == SubSeq(t, 1, Len(t) - 1)
       IN \/ AllDigits(num)
          \/ \E i \in 2..(Len(num) - 1) :
                /\ num[i] = "."
                /\ AllDigits(SubSeq(num, 1, i - 1))
                /\ AllDigits(SubSeq(num, i + 1, Len(num)))

PercentOf(t) ==
    LET num == SubSeq(t, 1, Len(t) - 1)
        dot == DotAt(num)
        i == IF dot = {} THEN Len(num) + 1 ELSE CHOOSE j \in dot : TRUE
    IN [whole |-> NumberOf(SubSeq(num, 1, i - 1)),
        frac |-> SubSeq(num, i + 1, Len(num))]

\* An Offset is a two-case union: a time offset or a percentage offset.
TimeOffset(d) == [kind |-> "time", d |-> d]
PercentOffset(p) == [kind |-> "percent", p |-> p]

ParseOffset_Coerce(t) ==
    IF IsHMS(t) \/ IsHMSm(t)
    THEN [err |-> "nil", v |-> Some(TimeOffset(DurationOf(t)))]
    ELSE IF IsPercent(t)
    THEN [err |-> "nil",
          v |-> Some(TimeOffset([h |-> 0, m |-> 0, s |-> PercentOf(t).whole,
                                 ms |-> 0, frac |-> FALSE]))]
    ELSE [err |-> "InvalidFormat", v |-> None]

ParseOffset(t) ==
    IF IsHMS(t) \/ IsHMSm(t)
    THEN [err |-> "nil", v |-> Some(TimeOffset(DurationOf(t)))]
    ELSE IF IsPercent(t)
    THEN [err |-> "nil", v |-> Some(PercentOffset(PercentOf(t)))]
    ELSE [err |-> "InvalidFormat", v |-> None]

RenderOffset(o) ==
    IF o.kind = "time" THEN RenderDuration(o.d)
    ELSE DigitsOf(o.p.whole)
            \o (IF o.p.frac = <<>> THEN <<>> ELSE <<".">> \o o.p.frac)
            \o <<"%">>

-----------------------------------------------------------------------------
(* Zero values of the document types *)

\* Tracking: Event, Offset, URI (src/vast.go 546-561; UA left out).
ZeroTracking == [Event |-> "", Offset |-> None, URI |-> ""]

\* Impression: ID, URI (130-133).
ZeroImpression == [ID |-> "", URI |-> ""]

\* MediaFile: URI, Delivery (599-642; the other attributes left out).
ZeroMediaFile == [URI |-> "", Delivery |-> ""]

\* VideoClick: ID, URI (593-596).
ZeroVideoClick == [ID |-> "", URI |-> ""]

\* VideoClicks: ClickThroughs (586-590; the two other lists left out).
ZeroVideoClicks == [ClickThroughs |-> NilSlice]

\* StaticResource: CreativeType, URI (564-569).
ZeroStaticResource == [CreativeType |-> "", URI |-> ""]

\* HTMLResource: HTML (572-576; XMLEncoded left out).
ZeroHTMLResource == [HTML |-> ""]

\* AdParameters: Parameters (579-583; XMLEncoded left out).
ZeroAdParameters == [Parameters |-> ""]

\* Companion (349-386): ID, the six dimensions, HTMLResource, IFrameResource,
\* StaticResource, AdParameters.
ZeroCompanion ==
    [ID |-> "", Width |-> 0, Height |-> 0, AssetWidth |-> 0, AssetHeight |-> 0,
     ExpandedWidth |-> 0, ExpandedHeight |-> 0, HTMLResource |-> None,
     IFrameResource |-> "", StaticResource |-> None, AdParameters |-> None]

\* CompanionWrapper (389-426): ID, the six dimensions, StaticResource,
\* IFrameResource.
ZeroCompanionWrapper ==
    [ID |-> "", Width |-> 0, Height |-> 0, AssetWidth |-> 0, AssetHeight |-> 0,
     ExpandedWidth |-> 0, ExpandedHeight |-> 0, StaticResource |-> None,
     IFrameResource |-> ""]

\* CompanionAds: Required, Companions (265-271).
ZeroCompanionAds == [Required |-> "", Companions |-> NilSlice]

\* CompanionAdsWrapper: Required, Companions (297-303).
ZeroCompanionAdsWrapper == [Required |-> "", Companions |-> NilSlice]

\* NonLinearAds: TrackingEvents (274-278; NonLinears left out).
ZeroNonLinearAds == [TrackingEvents |-> None]

\* NonLinearAdsWrapper: TrackingEvents (306-310; NonLinears left out).
ZeroNonLinearAdsWrapper == [TrackingEvents |-> None]

\* Linear: MediaFiles, TrackingEvents, VideoClicks, SkipOffset (319-339).
ZeroLinear ==
    [MediaFiles |-> None, TrackingEvents |-> None, VideoClicks |-> None,
     SkipOffset |-> None]

\* LinearWrapper: TrackingEvents (342-346).
ZeroLinearWrapper == [TrackingEvents |-> None]

\* Creative: CompanionAds, Linear, NonLinearAds, ID (230-262).
ZeroCreative == [CompanionAds |-> None, Linear |-> None, NonLinearAds |-> None, ID |-> ""]

\* CreativeWrapper: ID, Linear, CompanionAds, NonLinearAds (281-294).
ZeroCreativeWrapper ==
    [ID |-> "", Linear |-> None, CompanionAds |-> None, NonLinearAds |-> None]

\* Pricing: Model, Currency, Value (138-149).
ZeroPricing == [Model |-> "", Currency |-> "", Value |-> ""]

\* Category: Category, Authority (666-672).
ZeroCategory == [Category |-> "", Authority |-> ""]

\* BlockedAdCategories: Categories, Authority (151-157).
ZeroBlockedAdCategories == [Categories |-> "", Authority |-> ""]

\* CDATAString (47-49).
ZeroCDATAString == [CDATA |-> ""]

\* Extension: an opaque named sub-tree, kept as (type, data).
ZeroExtension == [Type |-> "", Data |-> ""]

\* InLine: AdTitle, Impressions, Category, Pricing, Extensions, Creatives (61-126).
ZeroInLine ==
    [AdTitle |-> "", Impressions |-> NilSlice, Category |-> NilSlice, Pricing |-> None,
     Extensions |-> None, Creatives |-> NilSlice]

\* Wrapper: Impressions, VASTAdTagURI, Pricing, Extensions, Creatives,
\* BlockedAdCategories and the three control attributes (165-219).
ZeroWrapper ==
    [Impressions |-> NilSlice, VASTAdTagURI |-> ZeroCDATAString, Pricing |-> None,
     Extensions |-> None, Creatives |-> None, BlockedAdCategories |-> None,
     FollowAdditionalWrappers |-> None, AllowMultipleAds |-> None,
     FallbackOnNoAd |-> None]

\* Ad: InLine, Wrapper, ID, AdType (28-43).
ZeroAd == [InLine |-> None, Wrapper |-> None, ID |-> "", AdType |-> ""]

\* VAST: Version, Ads, Errors (7-23).
ZeroVAST == [Version |-> "", Ads |-> NilSlice, Errors |-> NilSlice]

-----------------------------------------------------------------------------
(* Encoding: xml.Marshal over the struct tags.  Attributes are written in   *)
(* field order, then the element and text fields in field order.            *)

\* `xml:",cdata"`: a CDATA section; an empty string writes nothing.
CDataField_Plain(s) == IF s = "" THEN <<>> ELSE <<Chars(s)>>

CDataField(s) == IF s = "" THEN <<>> ELSE <<CData(s)>>

\* `xml:",chardata"`: escaped character data; an empty string writes nothing.
CharDataField(s) == IF s = "" THEN <<>> ELSE <<Chars(s)>>

\* `xml:"name,attr"`: always written.
AttrField(n, s) == <<Attr(n, s)>>

\* `xml:"name,attr,omitempty"` on a string: left out when empty.
AttrOmitEmpty(n, s) == IF s = "" THEN <<>> ELSE <<Attr(n, s)>>

\* strconv.Itoa, as encoding/xml writes an int: decimal digits, "-" before a
\* negative number.
FormatInt(n) == IF n < 0 THEN <<"-">> \o DigitsOf(0 - n) ELSE DigitsOf(n)

\* strconv.FormatBool
FormatBool(b) == IF b THEN "true" ELSE "false"

\* `xml:"name,attr"` on an int: always written.
IntAttr(n, i) == <<Attr(n, FormatInt(i))>>

\* `xml:"name,attr,omitempty"` on an int: left out when 0.
IntAttrOmitEmpty_Always(n, i) == <<Attr(n, FormatInt(i))>>

IntAttrOmitEmpty(n, i) == IF i = 0 THEN <<>> ELSE <<Attr(n, FormatInt(i))>>

\* `xml:"name,attr,omitempty"` on a *bool: left out when the pointer is nil;
\* the value pointed to is written whatever it is.
BoolPtrAttr_OmitFalse(n, p) ==
    IF IsNil(p) \/ ~Deref(p) THEN <<>> ELSE <<Attr(n, FormatBool(Deref(p)))>>

BoolPtrAttr(n, p) == IF IsNil(p) THEN <<>> ELSE <<Attr(n, FormatBool(Deref(p)))>>

\* `xml:",omitempty"` on a string field: an element named after the field
\* holding the escaped text, left out when the string is empty.
StringElemOmitEmpty(n, s) == IF s = "" THEN <<>> ELSE <<Elem(n, <<>>, <<Chars(s)>>)>>

\* The start element of an `a>b` path is opened for every field that is not
\* a nil pointer, before omitempty is looked at; a nil pointer writes nothing.
ParentOfSlice_NoContainer(parent, kids) == kids

ParentOfSlice(parent, kids) == <<Elem(parent, <<>>, kids)>>

ParentOfSlicePtr(parent, p, kids) ==
    IF IsNil(p) THEN <<>> ELSE <<Elem(parent, <<>>, kids)>>

\* Extension: re-emitted as it was captured.
EncodeExtension(x) ==
    Elem("Extension", AttrOmitEmpty("type", x.Type), CharDataField(x.Data))

\* CDATAString under element name n (47-49).
EncodeCDATAString(n, c) == Elem(n, <<>>, CDataField(c.CDATA))

\* Tracking (546-561): event attr, offset attr omitempty (*Offset), URI cdata.
EncodeTracking(t) ==
    Elem("Tracking",
         AttrField("event", t.Event)
            \o (IF IsNil(t.Offset) THEN <<>>
                ELSE <<Attr("offset", RenderOffset(Deref(t.Offset)))>>),
         CDataField(t.URI))

\* PlainString under element name n (53-55); no field of the package uses it.
EncodePlainString(n, c) == Elem(n, <<>>, CharDataField(c.CDATA))

\* TrackingEvents *[]Tracking `TrackingEvents>Tracking,omitempty`
\* (278, 309, 327, 345).
EncodeTrackingEvents(p) ==
    ParentOfSlicePtr("TrackingEvents", p,
        IF IsNil(p) THEN <<>>
        ELSE [i \in 1..Len(Deref(p).items) |-> EncodeTracking(Deref(p).items[i])])

\* Impression (130-133): id attr omitempty, URI cdata.
EncodeImpression(m) == Elem("Impression", AttrOmitEmpty("id", m.ID), CDataField(m.URI))

\* Impressions []Impression `xml:"Impression"` (68, 168): one element per item.
EncodeImpressions(sl) == [i \in 1..Len(sl.items) |-> EncodeImpression(sl.items[i])]

\* MediaFile (599-642): URI cdata, delivery attr.
EncodeMediaFile(m) == Elem("MediaFile", AttrField("delivery", m.Delivery), CDataField(m.URI))

\* MediaFiles *[]MediaFile `MediaFiles>MediaFile,omitempty` (323).
EncodeMediaFiles(p) ==
    ParentOfSlicePtr("MediaFiles", p,
        IF IsNil(p) THEN <<>>
        ELSE [i \in 1..Len(Deref(p).items) |-> EncodeMediaFile(Deref(p).items[i])])

\* VideoClick (593-596) under element name n: id attr omitempty, URI cdata.
EncodeVideoClick(n, c) == Elem(n, AttrOmitEmpty("id", c.ID), CDataField(c.URI))

\* VideoClicks (586-590): ClickThroughs []VideoClick `ClickThrough,omitempty`.
EncodeVideoClicks(v) ==
    Elem("VideoClicks", <<>>,
         [i \in 1..Len(v.ClickThroughs.items) |->
            EncodeVideoClick("ClickThrough", v.ClickThroughs.items[i])])

\* StaticResource (564-569): creativeType attr omitempty, URI cdata.
EncodeStaticResource(r) ==
    Elem("StaticResource", AttrOmitEmpty("creativeType", r.CreativeType), CDataField(r.URI))

\* HTMLResource (572-576): HTML cdata.
EncodeHTMLResource(r) == Elem("HTMLResource", <<>>, CDataField(r.HTML))

\* AdParameters (579-583): Parameters cdata.
EncodeAdParameters(r) == Elem("AdParameters", <<>>, CDataField(r.Parameters))

\* Companion (349-386): every attribute is omitempty; IFrameResource is a
\* string field `xml:",omitempty"`, an element of its own.
EncodeCompanion(c) ==
    Elem("Companion",
         AttrOmitEmpty("id", c.ID)
            \o IntAttrOmitEmpty("width", c.Width)
            \o IntAttrOmitEmpty("height", c.Height)
            \o IntAttrOmitEmpty("assetWidth", c.AssetWidth)
            \o IntAttrOmitEmpty("assetHeight", c.AssetHeight)
            \o IntAttrOmitEmpty("expandedWidth", c.ExpandedWidth)
            \o IntAttrOmitEmpty("expandedHeight", c.ExpandedHeight),
         (IF IsNil(c.HTMLResource) THEN <<>>
          ELSE <<EncodeHTMLResource(Deref(c.HTMLResource))>>)
            \o StringElemOmitEmpty("IFrameResource", c.IFrameResource)
            \o (IF IsNil(c.StaticResource) THEN <<>>
                ELSE <<EncodeStaticResource(Deref(c.StaticResource))>>)
            \o (IF IsNil(c.AdParameters) THEN <<>>
                ELSE <<EncodeAdParameters(Deref(c.AdParameters))>>))

\* CompanionWrapper (389-426): the six dimensions are plain attr fields;
\* IFrameResource is tagged `xml:",cdata"`, the element's own text.
EncodeCompanionWrapper(c) ==
    Elem("Companion",
         AttrOmitEmpty("id", c.ID)
            \o IntAttr("width", c.Width)
            \o IntAttr("height", c.Height)
            \o IntAttr("assetWidth", c.AssetWidth)
            \o IntAttr("assetHeight", c.AssetHeight)
            \o IntAttr("expandedWidth", c.ExpandedWidth)
            \o IntAttr("expandedHeight", c.ExpandedHeight),
         (IF IsNil(c.StaticResource) THEN <<>>
          ELSE <<EncodeStaticResource(Deref(c.StaticResource))>>)
            \o CDataField(c.IFrameResource))

\* CompanionAds (265-271): required attr omitempty, Companions `Companion,omitempty`.
EncodeCompanionAds(a) ==
    Elem("CompanionAds", AttrOmitEmpty("required", a.Required),
         [i \in 1..Len(a.Companions.items) |-> EncodeCompanion(a.Companions.items[i])])

\* CompanionAdsWrapper (297-303).
EncodeCompanionAdsWrapper(a) ==
    Elem("CompanionAds", AttrOmitEmpty("required", a.Required),
         [i \in 1..Len(a.Companions.items) |->
            EncodeCompanionWrapper(a.Companions.items[i])])

\* NonLinearAds (274-278) and NonLinearAdsWrapper (306-310): TrackingEvents.
EncodeNonLinearAds(a) == Elem("NonLinearAds", <<>>, EncodeTrackingEvents(a.TrackingEvents))

\* Linear (319-339), in field order: MediaFiles, TrackingEvents, VideoClicks;
\* SkipOffset *Offset `skipoffset,attr,omitempty`.
EncodeLinear(l) ==
    Elem("Linear",
         IF IsNil(l.SkipOffset) THEN <<>>
         ELSE <<Attr("skipoffset", RenderOffset(Deref(l.SkipOffset)))>>,
         EncodeMediaFiles(l.MediaFiles)
            \o EncodeTrackingEvents(l.TrackingEvents)
            \o (IF IsNil(l.VideoClicks) THEN <<>>
                ELSE <<EncodeVideoClicks(Deref(l.VideoClicks))>>))

\* LinearWrapper (342-346): TrackingEvents.
EncodeLinearWrapper(l) == Elem("Linear", <<>>, EncodeTrackingEvents(l.TrackingEvents))

\* Creative (230-262), in field order: CompanionAds, Linear, NonLinearAds, each
\* a pointer `,omitempty` written when set; ID `id,attr,omitempty`.
EncodeCreative(c) ==
    Elem("Creative",
         AttrOmitEmpty("id", c.ID),
         (IF IsNil(c.CompanionAds) THEN <<>>
          ELSE <<EncodeCompanionAds(Deref(c.CompanionAds))>>)
            \o (IF IsNil(c.Linear) THEN <<>> ELSE <<EncodeLinear(Deref(c.Linear))>>)
            \o (IF IsNil(c.NonLinearAds) THEN <<>>
                ELSE <<EncodeNonLinearAds(Deref(c.NonLinearAds))>>))

\* CreativeWrapper (281-294), in field order: Linear, CompanionAds, NonLinearAds.
EncodeCreativeWrapper(c) ==
    Elem("Creative",
         AttrOmitEmpty("id", c.ID),
         (IF IsNil(c.Linear) THEN <<>> ELSE <<EncodeLinearWrapper(Deref(c.Linear))>>)
            \o (IF IsNil(c.CompanionAds) THEN <<>>
                ELSE <<EncodeCompanionAdsWrapper(Deref(c.CompanionAds))>>)
            \o (IF IsNil(c.NonLinearAds) THEN <<>>
                ELSE <<EncodeNonLinearAds(Deref(c.NonLinearAds))>>))

\* Pricing (138-149): model attr, currency attr, Value cdata.
EncodePricing(p) ==
    Elem("Pricing",
         AttrField("model", p.Model) \o AttrField("currency", p.Currency),
         CDataField(p.Value))

\* Category (666-672): Category chardata, authority attr.
EncodeCategory(c) ==
    Elem("Category", AttrField("authority", c.Authority), CharDataField(c.Category))

\* BlockedAdCategories (151-157): Categories chardata, authority attr.
EncodeBlockedAdCategories(b) ==
    Elem("BlockedAdCategories", AttrField("authority", b.Authority),
         CharDataField(b.Categories))

\* Extensions *[]Extension `Extensions>Extension,omitempty` (107, 192).
EncodeExtensions(p) ==
    ParentOfSlicePtr("Extensions", p,
        IF IsNil(p) THEN <<>>
        ELSE [i \in 1..Len(Deref(p).items) |-> EncodeExtension(Deref(p).items[i])])

\* InLine (61-126), in field order: AdTitle, Impressions, Category, Pricing,
\* Extensions, Creatives.  AdTitle is a plain string element and always
\* written; Creatives []Creative `Creatives>Creative` always opens its container.
EncodeInLine(n) ==
    Elem("InLine", <<>>,
         <<Elem("AdTitle", <<>>, CharDataField(n.AdTitle))>>
            \o EncodeImpressions(n.Impressions)
            \o [i \in 1..Len(n.Category.items) |-> EncodeCategory(n.Category.items[i])]
            \o (IF IsNil(n.Pricing) THEN <<>> ELSE <<EncodePricing(Deref(n.Pricing))>>)
            \o EncodeExtensions(n.Extensions)
            \o ParentOfSlice("Creatives",
                  [i \in 1..Len(n.Creatives.items) |-> EncodeCreative(n.Creatives.items[i])]))

\* Creatives *[]CreativeWrapper `Creatives>Creative` (195).
EncodeCreativesWrapper(p) ==
    ParentOfSlicePtr("Creatives", p,
        IF IsNil(p) THEN <<>>
        ELSE [i \in 1..Len(Deref(p).items) |-> EncodeCreativeWrapper(Deref(p).items[i])])

\* Wrapper (165-219), in field order: Impressions, VASTAdTagURI, Pricing,
\* Extensions, Creatives, BlockedAdCategories; the three *bool attributes.
EncodeWrapper(w) ==
    Elem("Wrapper",
         BoolPtrAttr("followAdditionalWrappers", w.FollowAdditionalWrappers)
            \o BoolPtrAttr("allowMultipleAds", w.AllowMultipleAds)
            \o BoolPtrAttr("fallbackOnNoAd", w.FallbackOnNoAd),
         EncodeImpressions(w.Impressions)
            \o <<EncodeCDATAString("VASTAdTagURI", w.VASTAdTagURI)>>
            \o (IF IsNil(w.Pricing) THEN <<>> ELSE <<EncodePricing(Deref(w.Pricing))>>)
            \o EncodeExtensions(w.Extensions)
            \o EncodeCreativesWrapper(w.Creatives)
            \o (IF IsNil(w.BlockedAdCategories) THEN <<>>
                ELSE <<EncodeBlockedAdCategories(Deref(w.BlockedAdCategories))>>))

\* Ad (28-43): InLine *InLine `,omitempty`, Wrapper *Wrapper `,omitempty`,
\* ID `id,attr,omitempty`, AdType `adType,attr,omitempty`.  Each pointer that
\* is set is written; nothing looks at the other one.
EncodeAd(a) ==
    Elem("Ad",
         AttrOmitEmpty("id", a.ID) \o AttrOmitEmpty("adType", a.AdType),
         (IF IsNil(a.InLine) THEN <<>> ELSE <<EncodeInLine(Deref(a.InLine))>>)
            \o (IF IsNil(a.Wrapper) THEN <<>> ELSE <<EncodeWrapper(Deref(a.Wrapper))>>))

\* VAST (7-23): version attr, Ads `Ad,omitempty`, Errors `Error,omitempty`.
EncodeVAST(v) ==
    Elem("VAST",
         AttrField("version", v.Version),
         [i \in 1..Len(v.Ads.items) |-> EncodeAd(v.Ads.items[i])]
            \o [i \in 1..Len(v.Errors.items) |->
                    EncodeCDATAString("Error", v.Errors.items[i])])

\* xml.Marshal(v): the element tree and the error.  No field of these types
\* can make the encoder fail, and no check runs before it.
Marshal(v) == [wire |-> Some(EncodeVAST(v)), err |-> "nil"]

-----------------------------------------------------------------------------
(* Decoding: xml.Unmarshal over the struct tags.  The attributes of the     *)
(* start element are applied first, in document order; then every child     *)
(* element is matched by name against the fields (through the a>b paths),   *)
(* in document order; unmatched children are skipped.  The first error      *)
(* stops the walk.                                                          *)

Res(v, e) == [v |-> v, err |-> e]

\* Each step operator below (XAttr, XChild) comes with EachX, which applies it
\* to the attributes or child elements in document order until one fails.

\* A field that is a pointer to a struct: a nil pointer is allocated, a set
\* one is decoded into again.
Target(p, zero) == IF IsNil(p) THEN zero ELSE Deref(p)

\* A field that is a pointer to a slice: allocated on first use, then appended.
AppendPtr(p, x) == Some(AppendSlice(Target(p, NilSlice), x))

\* An attribute held by a *Offset: the literal goes through the Offset's text
\* parser; a literal it rejects fails the whole decode.
OffsetAttr(a) == ParseOffset(a.value)

StringAttr(attrs, n, default) ==
    IF IsNil(AttrOf(attrs, n)) THEN default ELSE Deref(AttrOf(attrs, n))

\* strings.TrimSpace on a literal.
RECURSIVE TrimLeft(_)
TrimLeft(t) == IF t # <<>> /\ Head(t) = " " THEN TrimLeft(Tail(t)) ELSE t

RECURSIVE TrimRight(_)
TrimRight(t) ==
    IF t # <<>> /\ t[Len(t)] = " " THEN TrimRight(SubSeq(t, 1, Len(t) - 1)) ELSE t

TrimSpace(t) == TrimRight(TrimLeft(t))

Unsigned(t) == IF t # <<>> /\ Head(t) \in {"+", "-"} THEN Tail(t) ELSE t

\* An attribute held by an int: an empty value is 0; otherwise
\* strconv.ParseInt of the trimmed literal, an optional sign and digits.
ParseInt(t) ==
    IF t = <<>> THEN Res(0, "nil")
    ELSE IF Unsigned(TrimSpace(t)) # <<>> /\ AllDigits(Unsigned(TrimSpace(t)))
    THEN Res(IF Head(TrimSpace(t)) = "-" THEN 0 - NumberOf(Unsigned(TrimSpace(t)))
             ELSE NumberOf(Unsigned(TrimSpace(t))), "nil")
    ELSE Res(0, "SyntaxError")

\* An attribute held by a *bool: strconv.ParseBool; the pointer is allocated.
ParseBool(v) ==
    IF v \in {"1", "t", "T", "TRUE", "true", "True"} THEN Res(Some(TRUE), "nil")
    ELSE IF v \in {"0", "f", "F", "FALSE", "false", "False"} THEN Res(Some(FALSE), "nil")
    ELSE Res(None, "SyntaxError")

\* Storing a decoded value r in field f of the value being filled: as it is,
\* behind a pointer, appended to a slice, appended to a slice behind a pointer.
PutField(acc, f, r) ==
    IF r.err = "nil" THEN Res([acc.v EXCEPT ![f] = r.v], "nil") ELSE Res(acc.v, r.err)

PutPointer(acc, f, r) == Res([acc.v EXCEPT ![f] = Some(r.v)], r.err)

PutAppend(acc, f, r) ==
    IF r.err = "nil" THEN Res([acc.v EXCEPT ![f] = AppendSlice(@, r.v)], "nil")
    ELSE Res(acc.v, r.err)

PutAppendPtr(acc, f, r) ==
    IF r.err = "nil" THEN Res([acc.v EXCEPT ![f] = AppendPtr(@, r.v)], "nil")
    ELSE Res(acc.v, r.err)

\* The element's own character data goes to the cdata/chardata field once
\* its children have been read.
PutText(acc, f, body) ==
    IF acc.err # "nil" THEN acc ELSE Res([acc.v EXCEPT ![f] = TextOf(body)], "nil")

DecodeExtension(e) ==
    [Type |-> StringAttr(e.attrs, "type", ""), Data |-> TextOf(e.body)]

DecodeCDATAString_KeepMarkers(e) == [CDATA |-> "<![CDATA[" \o TextOf(e.body) \o "]]>"]

DecodeCDATAString(e) == [CDATA |-> TextOf(e.body)]

PutOffset(acc, r) ==
    IF r.err = "nil" THEN Res([acc.v EXCEPT !.Offset = r.v], "nil") ELSE Res(acc.v, r.err)

TrackingAttr(acc, a) ==
    CASE a.name = "event" -> Res([acc.v EXCEPT !.Event = a.value], "nil")
      [] a.name = "offset" -> PutOffset(acc, OffsetAttr(a))
      [] OTHER -> acc

RECURSIVE EachTrackingAttr(_, _)
EachTrackingAttr(acc, s) ==
    IF s = <<>> \/ acc.err # "nil" THEN acc
    ELSE EachTrackingAttr(TrackingAttr(acc, Head(s)), Tail(s))

PutURI(acc, body) ==
    IF acc.err # "nil" THEN acc ELSE Res([acc.v EXCEPT !.URI = TextOf(body)], "nil")

DecodeTracking(e) == PutURI(EachTrackingAttr(Res(ZeroTracking, "nil"), e.attrs), e.body)

DecodeImpression(e) == [ID |-> StringAttr(e.attrs, "id", ""), URI |-> TextOf(e.body)]

DecodeMediaFile(e) ==
    [URI |-> TextOf(e.body), Delivery |-> StringAttr(e.attrs, "delivery", "")]

DecodeVideoClick(e) == [ID |-> StringAttr(e.attrs, "id", ""), URI |-> TextOf(e.body)]

VideoClicksChild(acc, c) ==
    IF c.name = "ClickThrough"
    THEN Res([acc.v EXCEPT !.ClickThroughs = AppendSlice(@, DecodeVideoClick(c))], "nil")
    ELSE acc

RECURSIVE EachVideoClicksChild(_, _)
EachVideoClicksChild(acc, s) ==
    IF s = <<>> \/ acc.err # "nil" THEN acc
    ELSE EachVideoClicksChild(VideoClicksChild(acc, Head(s)), Tail(s))

DecodeVideoClicks(init, e) == EachVideoClicksChild(Res(init, "nil"), ElemsOf(e.body))

DecodeStaticResource(init, e) ==
    [CreativeType |-> StringAttr(e.attrs, "creativeType", init.CreativeType),
     URI |-> TextOf(e.body)]

DecodeHTMLResource(e) == [HTML |-> TextOf(e.body)]

DecodeAdParameters(e) == [Parameters |-> TextOf(e.body)]

\* The attributes Companion and CompanionWrapper share by name.
CompanionAttr(acc, a) ==
    CASE a.name = "id" -> Res([acc.v EXCEPT !.ID = a.value], "nil")
      [] a.name = "width" -> PutField(acc, "Width", ParseInt(a.value))
      [] a.name = "height" -> PutField(acc, "Height", ParseInt(a.value))
      [] a.name = "assetWidth" -> PutField(acc, "AssetWidth", ParseInt(a.value))
      [] a.name = "assetHeight" -> PutField(acc, "AssetHeight", ParseInt(a.value))
      [] a.name = "expandedWidth" -> PutField(acc, "ExpandedWidth", ParseInt(a.value))
      [] a.name = "expandedHeight" -> PutField(acc, "ExpandedHeight", ParseInt(a.value))
      [] OTHER -> acc

RECURSIVE EachCompanionAttr(_, _)
EachCompanionAttr(acc, s) ==
    IF s = <<>> \/ acc.err # "nil" THEN acc
    ELSE EachCompanionAttr(CompanionAttr(acc, Head(s)), Tail(s))

\* Companion: <IFrameResource> is one of the child elements.
CompanionChild(acc, c) ==
    CASE c.name = "HTMLResource" ->
            Res([acc.v EXCEPT !.HTMLResource = Some(DecodeHTMLResource(c))], "nil")
      [] c.name = "IFrameResource" ->
            Res([acc.v EXCEPT !.IFrameResource = TextOf(c.body)], "nil")
      [] c.name = "StaticResource" ->
            Res([acc.v EXCEPT !.StaticResource =
                    Some(DecodeStaticResource(Target(@, ZeroStaticResource), c))], "nil")
      [] c.name = "AdParameters" ->
            Res([acc.v EXCEPT !.AdParameters = Some(DecodeAdParameters(c))], "nil")
      [] OTHER -> acc

RECURSIVE EachCompanionChild(_, _)
EachCompanionChild(acc, s) ==
    IF s = <<>> \/ acc.err # "nil" THEN acc
    ELSE EachCompanionChild(CompanionChild(acc, Head(s)), Tail(s))

DecodeCompanion(e) ==
    EachCompanionChild(EachCompanionAttr(Res(ZeroCompanion, "nil"), e.attrs),
                       ElemsOf(e.body))

\* CompanionWrapper: no field is named IFrameResource as an element, so such
\* a child is skipped; the IFrameResource field takes the character data of
\* <Companion> itself.
CompanionWrapperChild(acc, c) ==
    IF c.name = "StaticResource"
    THEN Res([acc.v EXCEPT !.StaticResource =
                Some(DecodeStaticResource(Target(@, ZeroStaticResource), c))], "nil")
    ELSE acc

RECURSIVE EachCompanionWrapperChild(_, _)
EachCompanionWrapperChild(acc, s) ==
    IF s = <<>> \/ acc.err # "nil" THEN acc
    ELSE EachCompanionWrapperChild(CompanionWrapperChild(acc, Head(s)), Tail(s))

DecodeCompanionWrapper(e) ==
    PutText(EachCompanionWrapperChild(
                EachCompanionAttr(Res(ZeroCompanionWrapper, "nil"), e.attrs),
                ElemsOf(e.body)),
            "IFrameResource", e.body)

CompanionAdsChild(acc, c) ==
    IF c.name = "Companion" THEN PutAppend(acc, "Companions", DecodeCompanion(c)) ELSE acc

RECURSIVE EachCompanionAdsChild(_, _)
EachCompanionAdsChild(acc, s) ==
    IF s = <<>> \/ acc.err # "nil" THEN acc
    ELSE EachCompanionAdsChild(CompanionAdsChild(acc, Head(s)), Tail(s))

DecodeCompanionAds(init, e) ==
    EachCompanionAdsChild(
        Res([init EXCEPT !.Required = StringAttr(e.attrs, "required", @)], "nil"),
        ElemsOf(e.body))

CompanionAdsWrapperChild(acc, c) ==
    IF c.name = "Companion"
    THEN PutAppend(acc, "Companions", DecodeCompanionWrapper(c))
    ELSE acc

RECURSIVE EachCompanionAdsWrapperChild(_, _)
EachCompanionAdsWrapperChild(acc, s) ==
    IF s = <<>> \/ acc.err # "nil" THEN acc
    ELSE EachCompanionAdsWrapperChild(CompanionAdsWrapperChild(acc, Head(s)), Tail(s))

DecodeCompanionAdsWrapper(init, e) ==
    EachCompanionAdsWrapperChild(
        Res([init EXCEPT !.Required = StringAttr(e.attrs, "required", @)], "nil"),
        ElemsOf(e.body))

PutSkipOffset(acc, r) ==
    IF r.err = "nil" THEN Res([acc.v EXCEPT !.SkipOffset = r.v], "nil")
    ELSE Res(acc.v, r.err)

LinearAttr(acc, a) ==
    IF a.name = "skipoffset" THEN PutSkipOffset(acc, OffsetAttr(a)) ELSE acc

RECURSIVE EachLinearAttr(_, _)
EachLinearAttr(acc, s) ==
    IF s = <<>> \/ acc.err # "nil" THEN acc
    ELSE EachLinearAttr(LinearAttr(acc, Head(s)), Tail(s))

PutTracking(acc, r) ==
    IF r.err = "nil" THEN Res([acc.v EXCEPT !.TrackingEvents = AppendPtr(@, r.v)], "nil")
    ELSE Res(acc.v, r.err)

\* A child of <TrackingEvents>: only <Tracking> matches the path.
LinearTracking(acc, g) ==
    IF g.name = "Tracking" THEN PutTracking(acc, DecodeTracking(g)) ELSE acc

RECURSIVE EachLinearTracking(_, _)
EachLinearTracking(acc, s) ==
    IF s = <<>> \/ acc.err # "nil" THEN acc
    ELSE EachLinearTracking(LinearTracking(acc, Head(s)), Tail(s))

\* A child of <MediaFiles>: only <MediaFile> matches the path.
LinearMediaFile(acc, g) ==
    IF g.name = "MediaFile"
    THEN Res([acc.v EXCEPT !.MediaFiles = AppendPtr(@, DecodeMediaFile(g))], "nil")
    ELSE acc

RECURSIVE EachLinearMediaFile(_, _)
EachLinearMediaFile(acc, s) ==
    IF s = <<>> \/ acc.err # "nil" THEN acc
    ELSE EachLinearMediaFile(LinearMediaFile(acc, Head(s)), Tail(s))

\* NonLinearAds, NonLinearAdsWrapper, LinearWrapper: TrackingEvents only.
TrackingEventsChild(acc, c) ==
    IF c.name = "TrackingEvents" THEN EachLinearTracking(acc, ElemsOf(c.body))
    ELSE acc

RECURSIVE EachTrackingEventsChild(_, _)
EachTrackingEventsChild(acc, s) ==
    IF s = <<>> \/ acc.err # "nil" THEN acc
    ELSE EachTrackingEventsChild(TrackingEventsChild(acc, Head(s)), Tail(s))

DecodeNonLinearAds(init, e) == EachTrackingEventsChild(Res(init, "nil"), ElemsOf(e.body))

DecodeLinearWrapper(init, e) == EachTrackingEventsChild(Res(init, "nil"), ElemsOf(e.body))

LinearChild(acc, c) ==
    CASE c.name = "MediaFiles" -> EachLinearMediaFile(acc, ElemsOf(c.body))
      [] c.name = "TrackingEvents" -> EachLinearTracking(acc, ElemsOf(c.body))
      [] c.name = "VideoClicks" ->
            PutPointer(acc, "VideoClicks",
                       DecodeVideoClicks(Target(acc.v.VideoClicks, ZeroVideoClicks), c))
      [] OTHER -> acc

RECURSIVE EachLinearChild(_, _)
EachLinearChild(acc, s) ==
    IF s = <<>> \/ acc.err # "nil" THEN acc
    ELSE EachLinearChild(LinearChild(acc, Head(s)), Tail(s))

DecodeLinear(init, e) ==
    EachLinearChild(EachLinearAttr(Res(init, "nil"), e.attrs), ElemsOf(e.body))

CreativeAttr(acc, a) ==
    IF a.name = "id" THEN Res([acc.v EXCEPT !.ID = a.value], "nil") ELSE acc

RECURSIVE EachCreativeAttr(_, _)
EachCreativeAttr(acc, s) ==
    IF s = <<>> \/ acc.err # "nil" THEN acc
    ELSE EachCreativeAttr(CreativeAttr(acc, Head(s)), Tail(s))

PutLinear(acc, r) == Res([acc.v EXCEPT !.Linear = Some(r.v)], r.err)

\* <CompanionAds>, <Linear> and <NonLinearAds> each fill their own pointer.
CreativeChild(acc, c) ==
    CASE c.name = "CompanionAds" ->
            PutPointer(acc, "CompanionAds",
                DecodeCompanionAds(Target(acc.v.CompanionAds, ZeroCompanionAds), c))
      [] c.name = "Linear" ->
            PutLinear(acc, DecodeLinear(Target(acc.v.Linear, ZeroLinear), c))
      [] c.name = "NonLinearAds" ->
            PutPointer(acc, "NonLinearAds",
                DecodeNonLinearAds(Target(acc.v.NonLinearAds, ZeroNonLinearAds), c))
      [] OTHER -> acc

RECURSIVE EachCreativeChild(_, _)
EachCreativeChild(acc, s) ==
    IF s = <<>> \/ acc.err # "nil" THEN acc
    ELSE EachCreativeChild(CreativeChild(acc, Head(s)), Tail(s))

DecodeCreative(e) ==
    EachCreativeChild(EachCreativeAttr(Res(ZeroCreative, "nil"), e.attrs),
                      ElemsOf(e.body))

CreativeWrapperChild(acc, c) ==
    CASE c.name = "Linear" ->
            PutPointer(acc, "Linear",
                DecodeLinearWrapper(Target(acc.v.Linear, ZeroLinearWrapper), c))
      [] c.name = "CompanionAds" ->
            PutPointer(acc, "CompanionAds",
                DecodeCompanionAdsWrapper(
                    Target(acc.v.CompanionAds, ZeroCompanionAdsWrapper), c))
      [] c.name = "NonLinearAds" ->
            PutPointer(acc, "NonLinearAds",
                DecodeNonLinearAds(Target(acc.v.NonLinearAds, ZeroNonLinearAdsWrapper), c))
      [] OTHER -> acc

RECURSIVE EachCreativeWrapperChild(_, _)
EachCreativeWrapperChild(acc, s) ==
    IF s = <<>> \/ acc.err # "nil" THEN acc
    ELSE EachCreativeWrapperChild(CreativeWrapperChild(acc, Head(s)), Tail(s))

DecodeCreativeWrapper(e) ==
    EachCreativeWrapperChild(EachCreativeAttr(Res(ZeroCreativeWrapper, "nil"), e.attrs),
                             ElemsOf(e.body))

DecodePricing(init, e) ==
    [Model |-> StringAttr(e.attrs, "model", init.Model),
     Currency |-> StringAttr(e.attrs, "currency", init.Currency),
     Value |-> TextOf(e.body)]

DecodeCategory(e) ==
    [Category |-> TextOf(e.body), Authority |-> StringAttr(e.attrs, "authority", "")]

DecodeBlockedAdCategories(init, e) ==
    [Categories |-> TextOf(e.body),
     Authority |-> StringAttr(e.attrs, "authority", init.Authority)]

\* A child of <Extensions>: only <Extension> matches the path.
ExtensionsChild(acc, g) ==
    IF g.name = "Extension"
    THEN Res([acc.v EXCEPT !.Extensions = AppendPtr(@, DecodeExtension(g))], "nil")
    ELSE acc

RECURSIVE EachExtensionsChild(_, _)
EachExtensionsChild(acc, s) ==
    IF s = <<>> \/ acc.err # "nil" THEN acc
    ELSE EachExtensionsChild(ExtensionsChild(acc, Head(s)), Tail(s))

PutCreative(acc, r) ==
    IF r.err = "nil" THEN Res([acc.v EXCEPT !.Creatives = AppendSlice(@, r.v)], "nil")
    ELSE Res(acc.v, r.err)

\* A child of <Creatives> below <InLine>: only <Creative> matches the path.
InLineCreative(acc, g) ==
    IF g.name = "Creative" THEN PutCreative(acc, DecodeCreative(g)) ELSE acc

RECURSIVE EachInLineCreative(_, _)
EachInLineCreative(acc, s) ==
    IF s = <<>> \/ acc.err # "nil" THEN acc
    ELSE EachInLineCreative(InLineCreative(acc, Head(s)), Tail(s))

InLineChild(acc, c) ==
    CASE c.name = "AdTitle" -> Res([acc.v EXCEPT !.AdTitle = TextOf(c.body)], "nil")
      [] c.name = "Impression" ->
            Res([acc.v EXCEPT !.Impressions = AppendSlice(@, DecodeImpression(c))], "nil")
      [] c.name = "Category" ->
            Res([acc.v EXCEPT !.Category = AppendSlice(@, DecodeCategory(c))], "nil")
      [] c.name = "Pricing" ->
            Res([acc.v EXCEPT !.Pricing = Some(DecodePricing(Target(@, ZeroPricing), c))],
                "nil")
      [] c.name = "Extensions" -> EachExtensionsChild(acc, ElemsOf(c.body))
      [] c.name = "Creatives" -> EachInLineCreative(acc, ElemsOf(c.body))
      [] OTHER -> acc

RECURSIVE EachInLineChild(_, _)
EachInLineChild(acc, s) ==
    IF s = <<>> \/ acc.err # "nil" THEN acc
    ELSE EachInLineChild(InLineChild(acc, Head(s)), Tail(s))

DecodeInLine(init, e) == EachInLineChild(Res(init, "nil"), ElemsOf(e.body))

\* The three control attributes are *bool: set only when the attribute is there.
WrapperAttr(acc, a) ==
    CASE a.name = "followAdditionalWrappers" ->
            PutField(acc, "FollowAdditionalWrappers", ParseBool(a.value))
      [] a.name = "allowMultipleAds" -> PutField(acc, "AllowMultipleAds", ParseBool(a.value))
      [] a.name = "fallbackOnNoAd" -> PutField(acc, "FallbackOnNoAd", ParseBool(a.value))
      [] OTHER -> acc

RECURSIVE EachWrapperAttr(_, _)
EachWrapperAttr(acc, s) ==
    IF s = <<>> \/ acc.err # "nil" THEN acc
    ELSE EachWrapperAttr(WrapperAttr(acc, Head(s)), Tail(s))

\* A child of <Creatives> below <Wrapper>: only <Creative> matches the path.
WrapperCreative(acc, g) ==
    IF g.name = "Creative"
    THEN PutAppendPtr(acc, "Creatives", DecodeCreativeWrapper(g))
    ELSE acc

RECURSIVE EachWrapperCreative(_, _)
EachWrapperCreative(acc, s) ==
    IF s = <<>> \/ acc.err # "nil" THEN acc
    ELSE EachWrapperCreative(WrapperCreative(acc, Head(s)), Tail(s))

WrapperChild(acc, c) ==
    CASE c.name = "Impression" ->
            Res([acc.v EXCEPT !.Impressions = AppendSlice(@, DecodeImpression(c))], "nil")
      [] c.name = "Creatives" -> EachWrapperCreative(acc, ElemsOf(c.body))
      [] c.name = "VASTAdTagURI" ->
            Res([acc.v EXCEPT !.VASTAdTagURI = DecodeCDATAString(c)], "nil")
      [] c.name = "Pricing" ->
            Res([acc.v EXCEPT !.Pricing = Some(DecodePricing(Target(@, ZeroPricing), c))],
                "nil")
      [] c.name = "Extensions" -> EachExtensionsChild(acc, ElemsOf(c.body))
      [] c.name = "BlockedAdCategories" ->
            Res([acc.v EXCEPT !.BlockedAdCategories =
                    Some(DecodeBlockedAdCategories(Target(@, ZeroBlockedAdCategories), c))],
                "nil")
      [] OTHER -> acc

RECURSIVE EachWrapperChild(_, _)
EachWrapperChild(acc, s) ==
    IF s = <<>> \/ acc.err # "nil" THEN acc
    ELSE EachWrapperChild(WrapperChild(acc, Head(s)), Tail(s))

DecodeWrapper(init, e) ==
    EachWrapperChild(EachWrapperAttr(Res(init, "nil"), e.attrs), ElemsOf(e.body))

\* adType: the attribute's value when it is there; nothing is filled in when
\* it is not.
AdAttr(acc, a) ==
    CASE a.name = "id" -> Res([acc.v EXCEPT !.ID = a.value], "nil")
      [] a.name = "adType" -> Res([acc.v EXCEPT !.AdType = a.value], "nil")
      [] OTHER -> acc

RECURSIVE EachAdAttr(_, _)
EachAdAttr(acc, s) ==
    IF s = <<>> \/ acc.err # "nil" THEN acc
    ELSE EachAdAttr(AdAttr(acc, Head(s)), Tail(s))

PutInLine(acc, r) == Res([acc.v EXCEPT !.InLine = Some(r.v)], r.err)

PutWrapper(acc, r) == Res([acc.v EXCEPT !.Wrapper = Some(r.v)], r.err)

\* <InLine> fills Ad.InLine and <Wrapper> fills Ad.Wrapper, each on its own.
AdChild_FirstWins(acc, c) ==
    CASE c.name = "InLine" /\ IsNil(acc.v.Wrapper) ->
            PutInLine(acc, DecodeInLine(Target(acc.v.InLine, ZeroInLine), c))
      [] c.name = "Wrapper" /\ IsNil(acc.v.InLine) ->
            PutWrapper(acc, DecodeWrapper(Target(acc.v.Wrapper, ZeroWrapper), c))
      [] OTHER -> acc

AdChild(acc, c) ==
    CASE c.name = "InLine" ->
            PutInLine(acc, DecodeInLine(Target(acc.v.InLine, ZeroInLine), c))
      [] c.name = "Wrapper" ->
            PutWrapper(acc, DecodeWrapper(Target(acc.v.Wrapper, ZeroWrapper), c))
      [] OTHER -> acc

RECURSIVE EachAdChild(_, _)
EachAdChild(acc, s) ==
    IF s = <<>> \/ acc.err # "nil" THEN acc
    ELSE EachAdChild(AdChild(acc, Head(s)), Tail(s))

DecodeAd(e) ==
    EachAdChild(EachAdAttr(Res(ZeroAd, "nil"), e.attrs), ElemsOf(e.body))

VASTAttr(acc, a) ==
    IF a.name = "version" THEN Res([acc.v EXCEPT !.Version = a.value], "nil") ELSE acc

RECURSIVE EachVASTAttr(_, _)
EachVASTAttr(acc, s) ==
    IF s = <<>> \/ acc.err # "nil" THEN acc
    ELSE EachVASTAttr(VASTAttr(acc, Head(s)), Tail(s))

PutAd(acc, r) ==
    IF r.err = "nil" THEN Res([acc.v EXCEPT !.Ads = AppendSlice(@, r.v)], "nil")
    ELSE Res(acc.v, r.err)

VASTChild(acc, c) ==
    CASE c.name = "Ad" -> PutAd(acc, DecodeAd(c))
      [] c.name = "Error" ->
            Res([acc.v EXCEPT !.Errors = AppendSlice(@, DecodeCDATAString(c))], "nil")
      [] OTHER -> acc

RECURSIVE EachVASTChild(_, _)
EachVASTChild(acc, s) ==
    IF s = <<>> \/ acc.err # "nil" THEN acc
    ELSE EachVASTChild(VASTChild(acc, Head(s)), Tail(s))

DecodeVAST(e) ==
    EachVASTChild(EachVASTAttr(Res(ZeroVAST, "nil"), e.attrs), ElemsOf(e.body))

\* xml.Unmarshal(data, &VAST{}): the Document and the error.
Unmarshal(w) == DecodeVAST(w)

-----------------------------------------------------------------------------
(* Values the caller builds Documents from *)

T_00_01_00 == <<"0", "0", ":", "0", "1", ":", "0", "0">>
T_00_00_30 == <<"0", "0", ":", "0", "0", ":", "3", "0">>
T_00_00_30_500 == T_00_00_30 \o <<".", "5", "0", "0">>
T_50pc == <<"5", "0", "%">>
T_50 == <<"5", "0">>
T_30 == <<"3", "0">>

BuiltOffsets ==
    {None,
     Some(TimeOffset([h |-> 0, m |-> 1, s |-> 0, ms |-> 0, frac |-> FALSE])),
     Some(PercentOffset([whole |-> 50, frac |-> <<>>]))}

BuiltTrackings ==
    {[Event |-> ev, Offset |-> o, URI |-> "u1"] :
        ev \in {"start", "progress"}, o \in BuiltOffsets}

PricingModels == {"cpm", "cpc", "cpe", "cpv"}

BuiltPricings ==
    {[Model |-> m, Currency |-> "USD", Value |-> "1"] : m \in {"cpm", "flat"}}

BuiltCategories == {[Category |-> "c1", Authority |-> a] : a \in {"", "iab"}}

BuiltBlocked ==
    {[Categories |-> "c1,c2", Authority |-> a] : a \in {"", "iab"}}

BuiltExtensions == {[Type |-> "x", Data |-> "d"]}

Payloads == {"InLine", "Wrapper"}

-----------------------------------------------------------------------------
(* State *)

NewVAST == [ZeroVAST EXCEPT !.Version = "4.2"]

Building == op \in {"new", "build"} /\ steps < MaxSteps

NAds == Len(doc.Ads.items)
LastAd == doc.Ads.items[NAds]
HasPayload(t) == NAds > 0 /\ ~IsNil(LastAd[t])
LastPayload(t) == Deref(LastAd[t])

Built(d) ==
    /\ doc' = d
    /\ op' = "build"
    /\ steps' = steps + 1
    /\ UNCHANGED <<wire, orig, err>>
    /\ UNCHANGED <<valueVars, callVars>>

\* v.Ads = []Ad{}
SetAdsEmpty ==
    /\ Building
    /\ doc.Ads.nil
    /\ Built([doc EXCEPT !.Ads = EmptySlice])

\* v.Ads = append(v.Ads, Ad{ID: id, InLine: &InLine{}, Wrapper: &Wrapper{}})
\* with either pointer set or left nil.
AppendAd(inl, wr, id) ==
    /\ Building
    /\ NAds < MaxAds
    /\ Built([doc EXCEPT !.Ads = AppendSlice(@,
                [ZeroAd EXCEPT
                    !.InLine = IF inl THEN Some(ZeroInLine) ELSE None,
                    !.Wrapper = IF wr THEN Some(ZeroWrapper) ELSE None,
                    !.ID = id])])

\* v.Errors = append(v.Errors, CDATAString{u})
AppendError(u) ==
    /\ Building
    /\ Len(doc.Errors.items) < MaxItems
    /\ Built([doc EXCEPT !.Errors = AppendSlice(@, [CDATA |-> u])])

\* x.Extensions = &[]Extension{} on the InLine or the Wrapper of the last Ad
SetExtensions(t) ==
    /\ Building
    /\ HasPayload(t)
    /\ IsNil(LastPayload(t).Extensions)
    /\ Built([doc EXCEPT !.Ads.items[NAds][t][1].Extensions = Some(EmptySlice)])

\* *x.Extensions = append(*x.Extensions, e), allocating the list when nil
AppendExtension(t, x) ==
    /\ Building
    /\ HasPayload(t)
    /\ Len(Target(LastPayload(t).Extensions, NilSlice).items) < MaxItems
    /\ Built([doc EXCEPT !.Ads.items[NAds][t][1].Extensions = AppendPtr(@, x)])

\* x.Pricing = &Pricing{...}
SetPricing(t, p) ==
    /\ Building
    /\ HasPayload(t)
    /\ IsNil(LastPayload(t).Pricing)
    /\ Built([doc EXCEPT !.Ads.items[NAds][t][1].Pricing = Some(p)])

\* inl.Category = append(inl.Category, c)
AppendCategory(c) ==
    /\ Building
    /\ HasPayload("InLine")
    /\ Len(LastPayload("InLine").Category.items) < MaxItems
    /\ Built([doc EXCEPT !.Ads.items[NAds].InLine[1].Category = AppendSlice(@, c)])

\* w.BlockedAdCategories = &BlockedAdCategories{...}
SetBlockedAdCategories(b) ==
    /\ Building
    /\ HasPayload("Wrapper")
    /\ IsNil(LastPayload("Wrapper").BlockedAdCategories)
    /\ Built([doc EXCEPT !.Ads.items[NAds].Wrapper[1].BlockedAdCategories = Some(b)])

\* inl.Creatives = append(inl.Creatives, Creative{Linear: &Linear{}})
AppendCreative ==
    /\ Building
    /\ HasPayload("InLine")
    /\ Len(LastPayload("InLine").Creatives.items) < MaxItems
    /\ Built([doc EXCEPT !.Ads.items[NAds].InLine[1].Creatives =
                AppendSlice(@, [ZeroCreative EXCEPT !.Linear = Some(ZeroLinear)])])

\* append a Tracking to the TrackingEvents of the last Creative's Linear
AppendTracking(t) ==
    /\ Building
    /\ HasPayload("InLine")
    /\ LET cs == LastPayload("InLine").Creatives.items
           k == Len(cs)
       IN /\ k > 0
          /\ Len(Target(Deref(cs[k].Linear).TrackingEvents, NilSlice).items) < MaxItems
          /\ Built([doc EXCEPT !.Ads.items[NAds].InLine[1].Creatives.items[k]
                                  .Linear[1].TrackingEvents = AppendPtr(@, t)])

Encoded(r) ==
    /\ wire' = r.wire
    /\ err' = r.err
    /\ orig' = Some(doc)
    /\ op' = "Marshal"
    /\ UNCHANGED <<doc, steps>>
    /\ UNCHANGED <<valueVars, callVars>>

\* data, err := xml.Marshal(v)
Encode ==
    /\ op \in {"new", "build"}
    /\ Encoded(Marshal(doc))

Decoded(r) ==
    /\ doc' = r.v
    /\ err' = r.err
    /\ op' = "Unmarshal"
    /\ UNCHANGED <<wire, orig, steps>>
    /\ UNCHANGED <<valueVars, callVars>>

\* err := xml.Unmarshal(data, &v) into a fresh Document
Decode ==
    /\ op \in {"Marshal", "Receive"}
    /\ ~IsNil(wire)
    /\ Decoded(Unmarshal(Deref(wire)))

-----------------------------------------------------------------------------
(* Documents received from other ad servers *)

WireTitle == Elem("AdTitle", <<>>, <<Chars("t1")>>)

WireTracking(off) ==
    Elem("Creatives", <<>>, <<
        Elem("Creative", <<>>, <<
            Elem("Linear", <<>>, <<
                Elem("TrackingEvents", <<>>, <<
                    Elem("Tracking", <<Attr("event", "progress"), Attr("offset", off)>>,
                         <<CData("u1")>>)>>)>>)>>)>>)

\* The child elements an <Ad> may arrive with.
WireKids ==
    {Elem("InLine", <<>>, <<WireTitle>>),
     Elem("InLine", <<>>, <<WireTitle, Elem("Extensions", <<>>, <<>>)>>),
     Elem("InLine", <<>>, <<WireTracking(T_50pc)>>),
     Elem("InLine", <<>>, <<WireTracking(T_50)>>),
     Elem("Wrapper", <<>>, <<Elem("VASTAdTagURI", <<>>, <<CData("u2")>>)>>),
     Elem("Wrapper", <<>>,
          <<Elem("Pricing", <<Attr("model", "flat"), Attr("currency", "USD")>>,
                 <<Chars("2")>>)>>),
     Elem("Other", <<>>, <<>>)}

WireBodies == UNION {[1..n -> WireKids] : n \in 0..MaxKids}

WireDocs ==
    {Elem("VAST", <<Attr("version", "4.2")>>,
          <<Elem("Ad", <<Attr("id", "a1")>>, b)>>) : b \in WireBodies}

\* data arrives from the network
Receive(w) ==
    /\ op = "new"
    /\ wire' = Some(w)
    /\ op' = "Receive"
    /\ UNCHANGED <<doc, orig, err, steps>>
    /\ UNCHANGED <<valueVars, callVars>>

-----------------------------------------------------------------------------
(* Sample Documents: each varies one part of a Document of one InLine Ad or  *)
(* one Wrapper Ad, through nil, empty and non-empty lists, set and unset     *)
(* pointers, zero and non-zero attributes.                                   *)

Name(prefix, i) == prefix \o ToString(i)

SampleImpression(i) == [ID |-> Name("i", i), URI |-> Name("imp", i)]
SampleError(i) == [CDATA |-> Name("err", i)]
SampleMediaFile(i) == [URI |-> Name("media", i), Delivery |-> "progressive"]
SampleVideoClick(i) == [ID |-> "", URI |-> Name("click", i)]
SampleTracking(i) == [Event |-> "start", Offset |-> None, URI |-> Name("track", i)]
SampleCreative(i) == [ZeroCreative EXCEPT !.ID = Name("c", i)]
SampleCreativeWrapper(i) == [ZeroCreativeWrapper EXCEPT !.ID = Name("c", i)]
SampleAd(i) == [ZeroAd EXCEPT !.ID = Name("a", i), !.InLine = Some(ZeroInLine)]

Lengths == 1..MaxList

\* The states of a list field: nil, empty, 1..MaxList items.
Impressions == {NilSlice, EmptySlice}
                \cup {SliceOf([i \in 1..n |-> SampleImpression(i)]) : n \in Lengths}
ErrorLists == {NilSlice, EmptySlice}
                \cup {SliceOf([i \in 1..n |-> SampleError(i)]) : n \in Lengths}
AdLists == {NilSlice, EmptySlice}
                \cup {SliceOf([i \in 1..n |-> SampleAd(i)]) : n \in Lengths}
CreativeLists == {NilSlice, EmptySlice}
                \cup {SliceOf([i \in 1..n |-> SampleCreative(i)]) : n \in Lengths}
VideoClickLists == {NilSlice}
                \cup {SliceOf([i \in 1..n |-> SampleVideoClick(i)]) : n \in Lengths}

\* The states of a list field behind a pointer: unset, empty, 1..MaxList items.
MediaFileLists == {None, Some(EmptySlice)}
                \cup {Some(SliceOf([i \in 1..n |-> SampleMediaFile(i)])) : n \in Lengths}
TrackingLists == {None, Some(EmptySlice)}
                \cup {Some(SliceOf([i \in 1..n |-> SampleTracking(i)])) : n \in Lengths}
CreativeWrapperLists == {None, Some(EmptySlice)}
                \cup {Some(SliceOf([i \in 1..n |-> SampleCreativeWrapper(i)])) : n \in Lengths}

TriState == {None, Some(TRUE), Some(FALSE)}
Dimensions == {0, 300}

SampleLinears ==
    {[ZeroLinear EXCEPT !.MediaFiles = m, !.TrackingEvents = t, !.VideoClicks = v] :
        m \in MediaFileLists, t \in TrackingLists,
        v \in {None} \cup {Some([ClickThroughs |-> c]) : c \in VideoClickLists}}

SampleResources ==
    {[ZeroCompanion EXCEPT !.HTMLResource = h, !.IFrameResource = f,
                           !.StaticResource = r, !.AdParameters = a] :
        h \in {None, Some([HTML |-> ""]), Some([HTML |-> "<b>"])},
        f \in {"", "frame1"},
        r \in {None, Some([CreativeType |-> "image/png", URI |-> "static1"])},
        a \in {None, Some([Parameters |-> "p=1"])}}

SampleCompanions ==
    SampleResources \cup
    {[ZeroCompanion EXCEPT !.ID = "k1", !.Width = w, !.Height = h, !.AssetWidth = aw,
                           !.AssetHeight = ah, !.ExpandedWidth = ew,
                           !.ExpandedHeight = eh] :
        w \in Dimensions, h \in Dimensions, aw \in Dimensions, ah \in Dimensions,
        ew \in Dimensions, eh \in Dimensions}

SampleCompanionWrappers ==
    {[ZeroCompanionWrapper EXCEPT !.IFrameResource = f, !.StaticResource = r] :
        f \in {"", "frame1"},
        r \in {None, Some([CreativeType |-> "", URI |-> "static1"])}}
    \cup
    {[ZeroCompanionWrapper EXCEPT !.ID = "k1", !.Width = w, !.Height = h,
                                  !.AssetWidth = aw, !.AssetHeight = ah,
                                  !.ExpandedWidth = ew, !.ExpandedHeight = eh] :
        w \in Dimensions, h \in Dimensions, aw \in Dimensions, ah \in Dimensions,
        ew \in Dimensions, eh \in Dimensions}

\* Creatives with no payload or with one.
SampleCreatives ==
    {ZeroCreative}
        \cup {[ZeroCreative EXCEPT !.Linear = Some(l)] : l \in SampleLinears}
        \cup {[ZeroCreative EXCEPT !.CompanionAds =
                    Some([Required |-> "any", Companions |-> SliceOf(<<k>>)])] :
                k \in SampleCompanions}
        \cup {[ZeroCreative EXCEPT !.NonLinearAds = Some([TrackingEvents |-> t])] :
                t \in TrackingLists}

SampleCreativeWrappers ==
    {ZeroCreativeWrapper}
        \cup {[ZeroCreativeWrapper EXCEPT !.Linear = Some([TrackingEvents |-> t])] :
                t \in TrackingLists}
        \cup {[ZeroCreativeWrapper EXCEPT !.CompanionAds =
                    Some([Required |-> "", Companions |-> SliceOf(<<k>>)])] :
                k \in SampleCompanionWrappers}
        \cup {[ZeroCreativeWrapper EXCEPT !.NonLinearAds = Some([TrackingEvents |-> t])] :
                t \in TrackingLists}

SampleInLines ==
    {[ZeroInLine EXCEPT !.AdTitle = "t1", !.Impressions = m, !.Creatives = c] :
        m \in Impressions, c \in CreativeLists}
        \cup {[ZeroInLine EXCEPT !.Creatives = SliceOf(<<c>>)] : c \in SampleCreatives}
        \cup {[ZeroInLine EXCEPT !.Pricing = Some(p), !.Category = SliceOf(<<c>>)] :
                p \in {ZeroPricing, [Model |-> "cpm", Currency |-> "USD", Value |-> "1"]},
                c \in {ZeroCategory, [Category |-> "c1", Authority |-> "iab"]}}

SampleWrappers ==
    {[ZeroWrapper EXCEPT !.VASTAdTagURI = [CDATA |-> "tag1"], !.Impressions = m,
                         !.Creatives = c] :
        m \in Impressions, c \in CreativeWrapperLists}
        \cup {[ZeroWrapper EXCEPT !.Creatives = Some(SliceOf(<<c>>))] :
                c \in SampleCreativeWrappers}
        \cup {[ZeroWrapper EXCEPT !.FollowAdditionalWrappers = f,
                                  !.AllowMultipleAds = a, !.FallbackOnNoAd = n] :
                f \in TriState, a \in TriState, n \in TriState}

SampleAds ==
    {[ZeroAd EXCEPT !.ID = "a1", !.InLine = Some(n)] : n \in SampleInLines}
        \cup {[ZeroAd EXCEPT !.ID = "a1", !.Wrapper = Some(w)] : w \in SampleWrappers}
        \cup {[ZeroAd EXCEPT !.InLine = Some(ZeroInLine), !.AdType = t] :
                t \in {"", "audio", "video"}}

SampleDocs ==
    {[NewVAST EXCEPT !.Ads = a, !.Errors = e] : a \in AdLists, e \in ErrorLists}
        \cup {[NewVAST EXCEPT !.Ads = SliceOf(<<a>>)] : a \in SampleAds}

-----------------------------------------------------------------------------
(* Sample element trees, as other ad servers write them *)

WireVAST(body) == Elem("VAST", <<Attr("version", "4.2")>>, body)
WireAd(body) == WireVAST(<<Elem("Ad", <<Attr("id", "a1")>>, body)>>)
WireInLine(body) == WireAd(<<Elem("InLine", <<>>, body)>>)
WireWrapper(attrs, body) == WireAd(<<Elem("Wrapper", attrs, body)>>)
WireCreatives(body) == Elem("Creatives", <<>>, <<Elem("Creative", <<>>, body)>>)

\* <Ad> and <Error> children of <VAST> in every interleaving.
WireInterleaved ==
    {WireVAST([i \in 1..Len(k) |->
                IF k[i] = "Ad" THEN Elem("Ad", <<Attr("id", Name("a", i))>>, <<>>)
                ELSE Elem("Error", <<>>, <<CData(Name("err", i))>>)]) :
        k \in UNION {[1..n -> {"Ad", "Error"}] : n \in 1..(MaxList + 1)}}

\* The ways a server writes the text "x1": plain, in a CDATA section, in both.
TextBodies == {<<Chars("x1")>>, <<CData("x1")>>, <<CData("x"), Chars("1")>>}

\* One element of every text-carrying type, with its text written as b.
WireTexts ==
    {WireVAST(<<Elem("Error", <<>>, b)>>) : b \in TextBodies}
    \cup
    {WireInLine(<<Elem("Impression", <<>>, b),
                  Elem("Category", <<Attr("authority", "iab")>>, b),
                  Elem("Pricing", <<Attr("model", "cpm")>>, b),
                  WireCreatives(<<
                    Elem("Linear", <<>>, <<
                        Elem("MediaFiles", <<>>, <<Elem("MediaFile", <<>>, b)>>),
                        Elem("TrackingEvents", <<>>, <<
                            Elem("Tracking", <<Attr("event", "start")>>, b)>>),
                        Elem("VideoClicks", <<>>, <<Elem("ClickThrough", <<>>, b)>>)>>)>>)>>) :
        b \in TextBodies}
    \cup
    {WireInLine(<<WireCreatives(<<
        Elem("CompanionAds", <<>>, <<
            Elem("Companion", <<>>, <<
                Elem("HTMLResource", <<>>, b),
                Elem("StaticResource", <<>>, b),
                Elem("AdParameters", <<>>, b)>>)>>)>>)>>) : b \in TextBodies}
    \cup
    {WireWrapper(<<>>, <<Elem("VASTAdTagURI", <<>>, b),
                         Elem("BlockedAdCategories", <<>>, b)>>) : b \in TextBodies}

\* A <Wrapper> with each control attribute absent or written some way.
BoolTexts == {"", "true", "false"}

WireBoolAttr(n, v) == IF v = "" THEN <<>> ELSE <<Attr(n, v)>>

WireBools ==
    {WireWrapper(WireBoolAttr("followAdditionalWrappers", f)
                    \o WireBoolAttr("allowMultipleAds", a)
                    \o WireBoolAttr("fallbackOnNoAd", n), <<>>) :
        f \in BoolTexts \cup {"1", "0", "yes"}, a \in BoolTexts, n \in BoolTexts}

\* A <Creative> with any of the three payload elements, below <InLine> and
\* below <Wrapper>.
WirePayloads ==
    {<<>>, <<Elem("Linear", <<>>, <<>>)>>, <<Elem("CompanionAds", <<>>, <<>>)>>,
     <<Elem("NonLinearAds", <<>>, <<>>)>>,
     <<Elem("Linear", <<>>, <<>>), Elem("CompanionAds", <<>>, <<>>)>>,
     <<Elem("CompanionAds", <<>>, <<>>), Elem("NonLinearAds", <<>>, <<>>)>>,
     <<Elem("Linear", <<>>, <<>>), Elem("CompanionAds", <<>>, <<>>),
       Elem("NonLinearAds", <<>>, <<>>)>>}

WireCreativePayloads ==
    {WireInLine(<<WireCreatives(b)>>) : b \in WirePayloads}
        \cup {WireWrapper(<<>>, <<WireCreatives(b)>>) : b \in WirePayloads}

\* A <Companion> with a width written some way and an <IFrameResource> child,
\* below <InLine> and below <Wrapper>.
WidthTexts == {<<>>, <<"3", "0", "0">>, <<" ", "3", "0", "0", " ">>, <<"-", "5">>, <<"x">>}

WireCompanion(w, kids) ==
    WireCreatives(<<Elem("CompanionAds", <<>>, <<
        Elem("Companion",
             IF w = <<>> THEN <<>> ELSE <<Attr("width", w)>>, kids)>>)>>)

WireIFrames ==
    {<<>>, <<Elem("IFrameResource", <<>>, <<CData("frame1")>>)>>,
     <<CData("frame2")>>}

WireCompanions ==
    {WireInLine(<<WireCompanion(w, k)>>) : w \in WidthTexts, k \in WireIFrames}
        \cup {WireWrapper(<<>>, <<WireCompanion(w, k)>>) : w \in WidthTexts, k \in WireIFrames}

\* An <Ad> with the adType attribute or without it.
WireAdTypes ==
    {WireVAST(<<Elem("Ad", a, <<Elem("InLine", <<>>, <<>>)>>)>>) :
        a \in {<<>>, <<Attr("adType", "audio")>>, <<Attr("id", "a1")>>}}

SampleWires ==
    WireInterleaved \cup WireTexts \cup WireBools \cup WireCreativePayloads
        \cup WireCompanions \cup WireAdTypes

-----------------------------------------------------------------------------
(* Literals handed to the value-type parsers *)

Alphabet == {"0", "3", "5", ":", ".", "%"}

ShortTexts == UNION {[1..n -> Alphabet] : n \in 0..MaxShort}

Pairs == {<<"0", "0">>, <<"0", "1">>, <<"3", "0">>, <<"5", "9">>}

HMSTexts == {h \o <<":">> \o m \o <<":">> \o s : h \in Pairs, m \in Pairs, s \in Pairs}

Millis == {<<"5", "0", "0">>, <<"0", "0", "0">>, <<"0", "0", "7">>}

HMSmTexts == {t \o <<".">> \o ms : t \in {T_00_00_30, T_00_01_00} \cup
                                          {p \o <<":">> \o p \o <<":">> \o p : p \in Pairs},
                                   ms \in Millis}

\* One edit away from a well-formed literal: a character replaced, dropped,
\* or added at either end.
Edits(b) ==
    {[b EXCEPT ![i] = c] : i \in 1..Len(b), c \in Alphabet}
        \cup {SubSeq(b, 1, i - 1) \o SubSeq(b, i + 1, Len(b)) : i \in 1..Len(b)}
        \cup {b \o <<c>> : c \in Alphabet}
        \cup {<<c>> \o b : c \in Alphabet}

PercentTexts ==
    {<<"1", "0", "0", "%">>, <<"1", "2", ".", "5", "%">>, <<"0", ".", "5", "%">>,
     <<"1", "2", ".", "5", ".", "3", "%">>, <<"5", "0", "%", "%">>,
     <<"5", "0", " ", "%">>, <<"1", "2", ".", "5">>}

Texts ==
    ShortTexts \cup HMSTexts \cup HMSmTexts \cup PercentTexts
        \cup Edits(T_00_00_30) \cup Edits(T_00_00_30_500) \cup Edits(T_00_01_00)

-----------------------------------------------------------------------------
(* Value-type operations *)

Parsed(r, name) ==
    /\ val' = r.v
    /\ verr' = r.err
    /\ out' = None
    /\ vop' = name
    /\ UNCHANGED <<text>>
    /\ UNCHANGED <<codecVars, callVars>>

DoParseDuration ==
    /\ vop = "init"
    /\ op = "new"
    /\ Parsed(ParseDuration(text), "ParseDuration")

DoParseOffset ==
    /\ vop = "init"
    /\ op = "new"
    /\ Parsed(ParseOffset(text), "ParseOffset")

\* the literal a parsed Duration renders to
DoRenderDuration ==
    /\ vop = "ParseDuration"
    /\ verr = "nil"
    /\ out' = Some(RenderDuration(Deref(val)))
    /\ vop' = "RenderDuration"
    /\ UNCHANGED <<text, val, verr>>
    /\ UNCHANGED <<codecVars, callVars>>

\* the literal a parsed Offset renders to
DoRenderOffset ==
    /\ vop = "ParseOffset"
    /\ verr = "nil"
    /\ out' = Some(RenderOffset(Deref(val)))
    /\ vop' = "RenderOffset"
    /\ UNCHANGED <<text, val, verr>>
    /\ UNCHANGED <<codecVars, callVars>>

\* The parsed Offset is put on a progress Tracking of a Linear, in a Document
\* of one InLine Ad.
OffsetDocument(o) ==
    [NewVAST EXCEPT !.Ads = SliceOf(<<
        [ZeroAd EXCEPT !.InLine = Some(
            [ZeroInLine EXCEPT !.Creatives = SliceOf(<<
                [ZeroCreative EXCEPT !.Linear = Some(
                    [ZeroLinear EXCEPT
                        !.SkipOffset = o,
                        !.TrackingEvents = Some(SliceOf(<<
                            [Event |-> "progress", Offset |-> o, URI |-> "u1"]>>))])]>>)])]>>)]

UseOffset ==
    /\ vop = "ParseOffset"
    /\ verr = "nil"
    /\ op = "new"
    /\ doc' = OffsetDocument(val)
    /\ op' = "build"
    /\ UNCHANGED <<wire, orig, err, steps>>
    /\ UNCHANGED <<valueVars, callVars>>

-----------------------------------------------------------------------------
(* Concurrent callers.  The package declares no variable, and xml.Marshal   *)
(* and xml.Unmarshal work in an encoder or decoder they allocate per call:  *)
(* the only state a call touches is its own argument and its own buffer.    *)

Threads == 1..MaxThreads

\* The working state call t uses: its own.
Slot_Shared(t) == 1

Slot(t) == t

Idle == [pc |-> "idle", name |-> "", input |-> None, given |-> None, result |-> None]

\* What the goroutines hand to the codec.
CallDocs ==
    {NewVAST,
     [NewVAST EXCEPT !.Ads = SliceOf(<<SampleAd(1)>>), !.Errors = EmptySlice],
     [NewVAST EXCEPT !.Ads = SliceOf(<<
        [ZeroAd EXCEPT !.Wrapper = Some(
            [ZeroWrapper EXCEPT !.AllowMultipleAds = Some(FALSE)])]>>)]}

CallWires ==
    {WireVAST(<<>>),
     WireInLine(<<Elem("Impression", <<>>, <<CData("imp1")>>)>>),
     WireWrapper(<<Attr("fallbackOnNoAd", "yes")>>, <<>>)}

\* go func() { data, err := xml.Marshal(v) }(), up to the call
EnterMarshal(t, v) ==
    /\ calls[t].pc = "idle"
    /\ calls' = [calls EXCEPT ![t] =
                    [pc |-> "called", name |-> "Marshal", input |-> Some(v),
                     given |-> Some(v), result |-> None]]
    /\ UNCHANGED <<buf, codecVars, valueVars>>

\* go func() { err := xml.Unmarshal(data, &v) }(), up to the call
EnterUnmarshal(t, w) ==
    /\ calls[t].pc = "idle"
    /\ calls' = [calls EXCEPT ![t] =
                    [pc |-> "called", name |-> "Unmarshal", input |-> Some(w),
                     given |-> Some(w), result |-> None]]
    /\ UNCHANGED <<buf, codecVars, valueVars>>

\* the call walks its argument and fills its working state
Work(t) ==
    /\ calls[t].pc = "called"
    /\ buf' = [buf EXCEPT ![Slot(t)] =
                    Some(IF calls[t].name = "Marshal"
                         THEN Marshal(Deref(calls[t].input))
                         ELSE Unmarshal(Deref(calls[t].input)))]
    /\ calls' = [calls EXCEPT ![t].pc = "worked"]
    /\ UNCHANGED <<codecVars, valueVars>>

\* the call returns what its working state holds, and drops it
Return(t) ==
    /\ calls[t].pc = "worked"
    /\ calls' = [calls EXCEPT ![t].pc = "done", ![t].result = buf[Slot(t)]]
    /\ buf' = [buf EXCEPT ![Slot(t)] = None]
    /\ UNCHANGED <<codecVars, valueVars>>

\* the goroutine is done with the result and may call again
Forget(t) ==
    /\ calls[t].pc = "done"
    /\ calls' = [calls EXCEPT ![t] = Idle]
    /\ UNCHANGED <<buf, codecVars, valueVars>>

NoCalls ==
    /\ calls = [t \in Threads |-> Idle]
    /\ buf = [t \in Threads |-> None]

-----------------------------------------------------------------------------
(* Specifications *)

InitCodec ==
    /\ doc = NewVAST
    /\ wire = None
    /\ orig = None
    /\ err = "nil"
    /\ op = "new"
    /\ steps = 0

NoValue ==
    /\ text = <<>>
    /\ val = None
    /\ verr = "nil"
    /\ out = None
    /\ vop = "none"

Init ==
    /\ InitCodec
    /\ NoValue
    /\ NoCalls

Next ==
    \/ SetAdsEmpty
    \/ \E inl \in BOOLEAN, wr \in BOOLEAN : AppendAd(inl, wr, "a1")
    \/ \E u \in {"u1"} : AppendError(u)
    \/ \E t \in Payloads : SetExtensions(t)
    \/ \E t \in Payloads, x \in BuiltExtensions : AppendExtension(t, x)
    \/ \E t \in Payloads, p \in BuiltPricings : SetPricing(t, p)
    \/ \E c \in BuiltCategories : AppendCategory(c)
    \/ \E b \in BuiltBlocked : SetBlockedAdCategories(b)
    \/ AppendCreative
    \/ \E t \in BuiltTrackings : AppendTracking(t)
    \/ \E w \in WireDocs : Receive(w)
    \/ Encode
    \/ Decode

\* Documents built by the caller or received, then encoded and decoded.
Spec == Init /\ [][Next]_vars

InitValue ==
    /\ InitCodec
    /\ text \in Texts
    /\ val = None
    /\ verr = "nil"
    /\ out = None
    /\ vop = "init"
    /\ NoCalls

NextValue ==
    \/ DoParseDuration
    \/ DoParseOffset
    \/ DoRenderDuration
    \/ DoRenderOffset
    \/ UseOffset
    \/ Encode
    \/ Decode

\* Literals parsed, rendered, and carried through the codec on a Tracking.
SpecValue == InitValue /\ [][NextValue]_vars

\* The caller holds a fresh Document, or one it has built.
InitDocs ==
    /\ doc \in {NewVAST} \cup SampleDocs
    /\ op = IF doc = NewVAST THEN "new" ELSE "build"
    /\ wire = None
    /\ orig = None
    /\ err = "nil"
    /\ steps = 0
    /\ NoValue
    /\ NoCalls

NextDocs ==
    \/ \E w \in SampleWires : Receive(w)
    \/ Encode
    \/ Decode

\* Sample Documents encoded and decoded again; sample element trees decoded.
SpecDocs == InitDocs /\ [][NextDocs]_vars

NextCalls ==
    \/ \E t \in Threads, v \in CallDocs : EnterMarshal(t, v)
    \/ \E t \in Threads, w \in CallWires : EnterUnmarshal(t, w)
    \/ \E t \in Threads : Work(t)
    \/ \E t \in Threads : Return(t)
    \/ \E t \in Threads : Forget(t)

\* Goroutines calling the codec on inputs of their own, in any interleaving.
SpecCalls == Init /\ [][NextCalls]_vars

-----------------------------------------------------------------------------
(* What the properties below read off a Document or an element tree *)

Range(s) == {s[i] : i \in DOMAIN s}

AdSet(d) == Range(d.Ads.items)
InLineSet(d) == {Deref(a.InLine) : a \in {x \in AdSet(d) : ~IsNil(x.InLine)}}
WrapperSet(d) == {Deref(a.Wrapper) : a \in {x \in AdSet(d) : ~IsNil(x.Wrapper)}}
PricingSet(d) ==
    {Deref(x.Pricing) : x \in {y \in InLineSet(d) \cup WrapperSet(d) : ~IsNil(y.Pricing)}}
CategorySet(d) == UNION {Range(n.Category.items) : n \in InLineSet(d)}
BlockedSet(d) ==
    {Deref(w.BlockedAdCategories) :
        w \in {x \in WrapperSet(d) : ~IsNil(x.BlockedAdCategories)}}
CreativeSet(d) == UNION {Range(n.Creatives.items) : n \in InLineSet(d)}
LinearSet(d) == {Deref(c.Linear) : c \in {x \in CreativeSet(d) : ~IsNil(x.Linear)}}
TrackingSet(d) ==
    UNION {Range(Deref(l.TrackingEvents).items) :
            l \in {x \in LinearSet(d) : ~IsNil(x.TrackingEvents)}}

\* An Ad with both payloads set, or with neither.
MalformedAd(a) == IsNil(a.InLine) = IsNil(a.Wrapper)
HasMalformedAd(d) == \E a \in AdSet(d) : MalformedAd(a)

ProgressWithoutOffset(t) == t.Event = "progress" /\ IsNil(t.Offset)
BadPricing(p) == p.Model \notin PricingModels
CategoryWithoutAuthority(c) == c.Category # "" /\ c.Authority = ""
BlockedWithoutAuthority(b) == b.Categories # "" /\ b.Authority = ""

\* A Document that breaks none of the four validation rules.
ValidDocument(d) ==
    /\ ~HasMalformedAd(d)
    /\ \A p \in PricingSet(d) : ~BadPricing(p)
    /\ \A c \in CategorySet(d) : ~CategoryWithoutAuthority(c)
    /\ \A b \in BlockedSet(d) : ~BlockedWithoutAuthority(b)
    /\ \A t \in TrackingSet(d) : ~ProgressWithoutOffset(t)

CodecCall == op \in {"Marshal", "Unmarshal"}
RoundTripped == op = "Unmarshal" /\ ~IsNil(orig)

\* The child elements named n of element e.
Kids(e, n) == {c \in Range(ElemsOf(e.body)) : c.name = n}

-----------------------------------------------------------------------------
(* Properties *)

\* C1: validation of an Ad with both InLine and Wrapper set, or with neither,
\* fails with MalformedAd: no codec call on a Document holding such an Ad
\* ends with another result.
C1_MalformedAdRejected ==
    (CodecCall /\ HasMalformedAd(doc)) => err = "MalformedAd"

\* C2: for every valid Document D, decode(encode(D)) is field-wise equal to D,
\* nil, empty and non-empty lists included.
C2_RoundTrip ==
    (RoundTripped /\ ValidDocument(Deref(orig))) => (err = "nil" /\ doc = Deref(orig))

\* C3: the Extensions of an InLine or Wrapper are unset after a round trip
\* exactly when they were unset before it; an explicit empty list comes back
\* as an empty, set list.
C3_ExtensionsPresence ==
    (RoundTripped /\ err = "nil") =>
        /\ Len(doc.Ads.items) = Len(Deref(orig).Ads.items)
        /\ \A i \in 1..Len(doc.Ads.items), t \in Payloads :
              LET before == Deref(orig).Ads.items[i][t]
                  after == doc.Ads.items[i][t]
              IN ~IsNil(before) =>
                    /\ ~IsNil(after)
                    /\ IsNil(Deref(after).Extensions) = IsNil(Deref(before).Extensions)
                    /\ ~IsNil(Deref(after).Extensions) =>
                          ~Deref(Deref(after).Extensions).nil

\* C4: encoding a Document that holds an Ad with both payloads set, or with
\* neither, returns an error and emits no XML.
C4_EncodeRejectsMalformedAd ==
    (op = "Marshal" /\ HasMalformedAd(Deref(orig))) => (err # "nil" /\ IsNil(wire))

\* C5: decoding an <Ad> that has both an <InLine> and a <Wrapper> child either
\* fails or yields an Ad with both payloads set, each holding the data of its
\* own child element.
C5_DecodeKeepsBothPayloads ==
    (op = "Unmarshal" /\ err = "nil") =>
        LET ads == ElemsOf(Deref(wire).body) IN
        \A i \in 1..Len(doc.Ads.items) :
            LET e == SelectSeq(ads, LAMBDA c : c.name = "Ad")[i]
                a == doc.Ads.items[i]
            IN (Kids(e, "InLine") # {} /\ Kids(e, "Wrapper") # {}) =>
                  /\ ~IsNil(a.InLine)
                  /\ ~IsNil(a.Wrapper)
                  /\ \A n \in Kids(e, "InLine") :
                        Kids(n, "AdTitle") # {} =>
                            Deref(a.InLine).AdTitle \in
                                {TextOf(g.body) :
                                    g \in UNION {Kids(m, "AdTitle") : m \in Kids(e, "InLine")}}
                  /\ \A w \in Kids(e, "Wrapper") :
                        /\ Kids(w, "VASTAdTagURI") # {} =>
                              Deref(a.Wrapper).VASTAdTagURI.CDATA \in
                                {TextOf(g.body) :
                                    g \in UNION {Kids(m, "VASTAdTagURI") : m \in Kids(e, "Wrapper")}}
                        /\ Kids(w, "Pricing") # {} => ~IsNil(Deref(a.Wrapper).Pricing)

\* C5 witness: a received <Ad> with an <InLine> child carrying a title and a
\* <Wrapper> child carrying an ad tag URI has been decoded with both kept.
C5_Witness ==
    /\ op = "Unmarshal" /\ err = "nil" /\ IsNil(orig)
    /\ Len(doc.Ads.items) = 1
    /\ ~IsNil(doc.Ads.items[1].InLine) /\ ~IsNil(doc.Ads.items[1].Wrapper)
    /\ Deref(doc.Ads.items[1].InLine).AdTitle = "t1"
    /\ Deref(doc.Ads.items[1].Wrapper).VASTAdTagURI.CDATA = "u2"

\* C6: a Tracking whose event is "progress" and whose offset is absent fails
\* validation with MissingOffset.
C6_ProgressNeedsOffset ==
    (CodecCall /\ \E t \in TrackingSet(doc) : ProgressWithoutOffset(t))
        => err = "MissingOffset"

\* C7: a Pricing whose model is none of cpm, cpc, cpe, cpv is reported as
\* InvalidPricingModel.
C7_PricingModelChecked ==
    (CodecCall /\ \E p \in PricingSet(doc) : BadPricing(p))
        => err = "InvalidPricingModel"

\* C8: a populated Category or BlockedAdCategories with an empty authority is
\* reported as MissingAuthority.
C8_AuthorityChecked ==
    (CodecCall /\ (\/ \E c \in CategorySet(doc) : CategoryWithoutAuthority(c)
                   \/ \E b \in BlockedSet(doc) : BlockedWithoutAuthority(b)))
        => err = "MissingAuthority"

\* The shapes HH:MM:SS and HH:MM:SS.mmm, position by position.
DurationShape(t) ==
    /\ Len(t) \in {8, 12}
    /\ \A i \in 1..Len(t) :
          IF i \in {3, 6} THEN t[i] = ":"
          ELSE IF i = 9 THEN t[i] = "."
          ELSE t[i] \in Digits

\* The shape <number>%: digits with at most one dot between two of them,
\* followed by the percent sign.
PercentShape(t) ==
    /\ Len(t) >= 2
    /\ t[Len(t)] = "%"
    /\ \A i \in 1..(Len(t) - 1) : t[i] \in Digits \cup {"."}
    /\ Cardinality({i \in 1..(Len(t) - 1) : t[i] = "."}) <= 1
    /\ t[1] # "." /\ t[Len(t) - 1] # "."

\* C9: ParseDuration accepts exactly HH:MM:SS and HH:MM:SS.mmm and answers
\* InvalidFormat to anything else; "00:00:30" is 30 s and no milliseconds,
\* "00:00:30.500" is 30 s 500 ms, "30" is rejected; rendering the parsed
\* Duration gives back the literal.
C9_ParseDuration ==
    /\ vop \in {"ParseDuration", "RenderDuration"} =>
          /\ (verr = "nil") <=> DurationShape(text)
          /\ verr # "nil" => (verr = "InvalidFormat" /\ IsNil(val))
          /\ text = T_00_00_30 =>
                (Seconds(Deref(val)) = 30 /\ Deref(val).ms = 0)
          /\ text = T_00_00_30_500 =>
                (Seconds(Deref(val)) = 30 /\ Deref(val).ms = 500)
          /\ text = T_30 => verr = "InvalidFormat"
    /\ vop = "RenderDuration" => out = Some(text)

\* C9 witness: "00:00:30.500" has been parsed and rendered back.
C9_Witness ==
    /\ vop = "RenderDuration"
    /\ text = T_00_00_30_500
    /\ Deref(val).s = 30 /\ Deref(val).ms = 500
    /\ out = Some(T_00_00_30_500)

\* The Offsets a decoded Document carries: on its Trackings and as SkipOffset.
OffsetSet(d) ==
    {Deref(t.Offset) : t \in {x \in TrackingSet(d) : ~IsNil(x.Offset)}}
        \cup {Deref(l.SkipOffset) : l \in {x \in LinearSet(d) : ~IsNil(x.SkipOffset)}}

\* C10: ParseOffset gives a time offset for a duration literal, a percentage
\* offset for <number>%, and InvalidFormat otherwise ("50%" is percentage 50,
\* "00:01:00" is the time offset 60 s, "50" is rejected); an Offset of one
\* kind is of the same kind after it was encoded and decoded.
C10_ParseOffset ==
    /\ vop \in {"ParseOffset", "RenderOffset"} =>
          /\ DurationShape(text) => (verr = "nil" /\ Deref(val).kind = "time")
          /\ PercentShape(text) => (verr = "nil" /\ Deref(val).kind = "percent")
          /\ (~DurationShape(text) /\ ~PercentShape(text)) =>
                (verr = "InvalidFormat" /\ IsNil(val))
          /\ text = T_50pc => Deref(val).p.whole = 50
          /\ text = T_00_01_00 => Seconds(Deref(val).d) = 60
          /\ text = T_50 => verr = "InvalidFormat"
    /\ (vop = "ParseOffset" /\ RoundTripped /\ Deref(orig) = OffsetDocument(val)) =>
          /\ err = "nil"
          /\ OffsetSet(doc) # {}
          /\ \A o \in OffsetSet(doc) : o.kind = Deref(val).kind

\* C10 witness: "50%" was parsed as a percentage, put on a Tracking, encoded
\* and decoded, and is a percentage still.
C10_Witness ==
    /\ vop = "ParseOffset" /\ text = T_50pc
    /\ Deref(val) = PercentOffset([whole |-> 50, frac |-> <<>>])
    /\ RoundTripped /\ Deref(orig) = OffsetDocument(val)
    /\ \E o \in OffsetSet(doc) : o.kind = "percent"

-----------------------------------------------------------------------------
(* Reading lists off a Document and off an element tree, side by side *)

Named(es, n) == SelectSeq(es, LAMBDA c : c.name = n)

RECURSIVE Concat(_)
Concat(ss) == IF ss = <<>> THEN <<>> ELSE Head(ss) \o Concat(Tail(ss))

\* The child elements of all elements named n among the siblings es.
Under(es, n) == Concat([k \in 1..Len(Named(es, n)) |-> ElemsOf(Named(es, n)[k].body)])

AdElems(w) == Named(ElemsOf(w.body), "Ad")

ItemsOf(p) == IF IsNil(p) THEN <<>> ELSE Deref(p).items

FieldOf(items, f) == [j \in 1..Len(items) |-> items[j][f]]

\* What tells the items of a list apart: the id attribute, or the text.
KeysOf(es, byText) ==
    [j \in 1..Len(es) |->
        IF byText THEN TextOf(es[j].body) ELSE StringAttr(es[j].attrs, "id", "")]

\* Element e holds exactly one container named parent, and the container
\* holds one or more elements, all named item.
OneContainer(e, parent, item) ==
    /\ Len(Named(ElemsOf(e.body), parent)) = 1
    /\ Under(ElemsOf(e.body), parent) # <<>>
    /\ \A j \in 1..Len(Under(ElemsOf(e.body), parent)) :
          Under(ElemsOf(e.body), parent)[j].name = item

\* The list with keys `keys` was written below e as one container.
Flattened(e, parent, item, keys, byText) ==
    Len(keys) >= 1 =>
        /\ OneContainer(e, parent, item)
        /\ KeysOf(Under(ElemsOf(e.body), parent), byText) = keys

\* The one container below e was read as the list with keys `keys`.
Descended(e, parent, item, keys, byText) ==
    OneContainer(e, parent, item) =>
        KeysOf(Under(ElemsOf(e.body), parent), byText) = keys

\* The four flattened lists of Document d against the tree w, related by
\* Flattened (written = TRUE) or by Descended.
FlatLinear(l, e, written) ==
    IF written
    THEN /\ Flattened(e, "MediaFiles", "MediaFile",
                      FieldOf(ItemsOf(l.MediaFiles), "URI"), TRUE)
         /\ Flattened(e, "TrackingEvents", "Tracking",
                      FieldOf(ItemsOf(l.TrackingEvents), "URI"), TRUE)
    ELSE /\ Descended(e, "MediaFiles", "MediaFile",
                      FieldOf(ItemsOf(l.MediaFiles), "URI"), TRUE)
         /\ Descended(e, "TrackingEvents", "Tracking",
                      FieldOf(ItemsOf(l.TrackingEvents), "URI"), TRUE)

FlatCreatives(items, e, written) ==
    /\ IF written
       THEN Flattened(e, "Creatives", "Creative", FieldOf(items, "ID"), FALSE)
       ELSE Descended(e, "Creatives", "Creative", FieldOf(items, "ID"), FALSE)

FlatInLine(n, e, written) ==
    /\ FlatCreatives(n.Creatives.items, e, written)
    /\ \A j \in 1..Len(n.Creatives.items) :
          LET c == n.Creatives.items[j]
              ces == Under(ElemsOf(e.body), "Creatives")
          IN (~IsNil(c.Linear) /\ j <= Len(ces)
                    /\ Len(Named(ElemsOf(ces[j].body), "Linear")) = 1) =>
                FlatLinear(Deref(c.Linear), Named(ElemsOf(ces[j].body), "Linear")[1],
                           written)

FlatAd(a, e, written) ==
    /\ (~IsNil(a.InLine) /\ Len(Named(ElemsOf(e.body), "InLine")) = 1) =>
          FlatInLine(Deref(a.InLine), Named(ElemsOf(e.body), "InLine")[1], written)
    /\ (~IsNil(a.Wrapper) /\ Len(Named(ElemsOf(e.body), "Wrapper")) = 1) =>
          FlatCreatives(ItemsOf(Deref(a.Wrapper).Creatives),
                        Named(ElemsOf(e.body), "Wrapper")[1], written)

FlatDocument(d, w, written) ==
    /\ Len(AdElems(w)) = Len(d.Ads.items)
    /\ \A i \in 1..Len(d.Ads.items) :
          /\ IsNil(d.Ads.items[i].InLine) = (Named(ElemsOf(AdElems(w)[i].body), "InLine") = <<>>)
          /\ IsNil(d.Ads.items[i].Wrapper) = (Named(ElemsOf(AdElems(w)[i].body), "Wrapper") = <<>>)
          /\ FlatAd(d.Ads.items[i], AdElems(w)[i], written)

-----------------------------------------------------------------------------
(* Properties, continued *)

\* C11: encoding an Ad whose ad type is unset writes no adType attribute, and
\* decoding an <Ad> that has no adType attribute yields the ad type "video".
C11_AdTypeDefault ==
    /\ op = "Marshal" =>
          \A i \in 1..Len(Deref(orig).Ads.items) :
              Deref(orig).Ads.items[i].AdType = "" =>
                  IsNil(AttrOf(AdElems(Deref(wire))[i].attrs, "adType"))
    /\ (op = "Unmarshal" /\ err = "nil") =>
          \A i \in 1..Len(doc.Ads.items) :
              IsNil(AttrOf(AdElems(Deref(wire))[i].attrs, "adType")) =>
                  doc.Ads.items[i].AdType = "video"

\* C12: a list of n >= 1 Creatives of an InLine or a Wrapper, MediaFiles or
\* Tracking events of a Linear is written as exactly one container element
\* holding the n item elements in list order, and such a container is read
\* as the n items in the same order.
C12_Flattening ==
    /\ op = "Marshal" => FlatDocument(Deref(orig), Deref(wire), TRUE)
    /\ (op = "Unmarshal" /\ err = "nil") => FlatDocument(doc, Deref(wire), FALSE)

\* C12 witness: an InLine with MaxList Creatives was written, its <Creatives>
\* container read again, and the Creatives came back in order.
C12_Witness ==
    /\ RoundTripped /\ err = "nil"
    /\ Len(Deref(orig).Ads.items) = 1
    /\ ~IsNil(Deref(orig).Ads.items[1].InLine)
    /\ Len(Deref(Deref(orig).Ads.items[1].InLine).Creatives.items) = MaxList
    /\ OneContainer(Named(ElemsOf(AdElems(Deref(wire))[1].body), "InLine")[1],
                    "Creatives", "Creative")
    /\ FieldOf(Deref(doc.Ads.items[1].InLine).Creatives.items, "ID")
          = [j \in 1..MaxList |-> Name("c", j)]

\* Every element of the tree below e, e included.
RECURSIVE Desc(_)
Desc(e) == {e} \cup UNION {Desc(c) : c \in Range(ElemsOf(e.body))}

TextNodes(e) == {n \in Range(e.body) : IsText(n)}
TextsIn(w, n) == {TextOf(e.body) : e \in {x \in Desc(w) : x.name = n}}

\* The tree with every CDATA section written as plain text, and with every
\* run of plain text written as a CDATA section.
RECURSIVE Rewritten(_, _)
Rewritten(n, kind) ==
    IF IsElem(n)
    THEN [n EXCEPT !.body = [i \in 1..Len(n.body) |-> Rewritten(n.body[i], kind)]]
    ELSE [n EXCEPT !.kind = kind]

\* The values of a Document, type by type.
AllImpressions(d) ==
    UNION {Range(x.Impressions.items) : x \in InLineSet(d) \cup WrapperSet(d)}
CreativeWrapperSet(d) ==
    UNION {Range(ItemsOf(w.Creatives)) : w \in WrapperSet(d)}
CompanionSet(d) ==
    UNION {Range(Deref(c.CompanionAds).Companions.items) :
            c \in {x \in CreativeSet(d) \cup CreativeWrapperSet(d) : ~IsNil(x.CompanionAds)}}
AllTrackings(d) ==
    UNION {Range(ItemsOf(Deref(c.Linear).TrackingEvents)) :
            c \in {x \in CreativeSet(d) \cup CreativeWrapperSet(d) : ~IsNil(x.Linear)}}
    \cup UNION {Range(ItemsOf(Deref(c.NonLinearAds).TrackingEvents)) :
            c \in {x \in CreativeSet(d) \cup CreativeWrapperSet(d) : ~IsNil(x.NonLinearAds)}}
MediaFileSet(d) == UNION {Range(ItemsOf(l.MediaFiles)) : l \in LinearSet(d)}
VideoClickSet(d) ==
    UNION {Range(Deref(l.VideoClicks).ClickThroughs.items) :
            l \in {x \in LinearSet(d) : ~IsNil(x.VideoClicks)}}
StaticResourceSet(d) ==
    {Deref(k.StaticResource) : k \in {x \in CompanionSet(d) : ~IsNil(x.StaticResource)}}
InLineCompanionSet(d) ==
    UNION {Range(Deref(c.CompanionAds).Companions.items) :
            c \in {x \in CreativeSet(d) : ~IsNil(x.CompanionAds)}}
HTMLResourceSet(d) ==
    {Deref(k.HTMLResource) : k \in {x \in InLineCompanionSet(d) : ~IsNil(x.HTMLResource)}}
AdParametersSet(d) ==
    {Deref(k.AdParameters) : k \in {x \in InLineCompanionSet(d) : ~IsNil(x.AdParameters)}}

CDataElems ==
    {"Error", "VASTAdTagURI", "Impression", "Tracking", "MediaFile", "ClickThrough",
     "StaticResource", "HTMLResource", "AdParameters", "Pricing"}
CharDataElems == {"Category", "BlockedAdCategories", "PlainString"}

\* The text of the CDATA-flavoured fields of d is what w carries in the
\* elements of those fields.
TextsWritten(d, w) ==
    /\ TextsIn(w, "Error") = {e.CDATA : e \in Range(d.Errors.items)}
    /\ TextsIn(w, "VASTAdTagURI") = {x.VASTAdTagURI.CDATA : x \in WrapperSet(d)}
    /\ TextsIn(w, "Impression") = {m.URI : m \in AllImpressions(d)}
    /\ TextsIn(w, "Tracking") = {t.URI : t \in AllTrackings(d)}
    /\ TextsIn(w, "MediaFile") = {m.URI : m \in MediaFileSet(d)}
    /\ TextsIn(w, "ClickThrough") = {c.URI : c \in VideoClickSet(d)}
    /\ TextsIn(w, "StaticResource") = {r.URI : r \in StaticResourceSet(d)}
    /\ TextsIn(w, "HTMLResource") = {r.HTML : r \in HTMLResourceSet(d)}
    /\ TextsIn(w, "AdParameters") = {r.Parameters : r \in AdParametersSet(d)}
    /\ TextsIn(w, "Pricing") = {q.Value : q \in PricingSet(d)}

\* C13: the text of every CDATA-flavoured field (CDATAString, the URI of
\* Impression, Tracking, MediaFile, VideoClick, StaticResource, the text of
\* HTMLResource, AdParameters, Pricing) is written in a CDATA section, the
\* text of a chardata field (PlainString, Category, BlockedAdCategories) as
\* plain character data; a tree decodes to the same Document whether its
\* text is in CDATA sections or not.
C13_CDataFlavour ==
    /\ \A t \in {"", "x1"} :
          \A n \in TextNodes(EncodePlainString("PlainString", [CDATA |-> t])) :
              n.kind = "chars"
    /\ op = "Marshal" =>
          /\ \A e \in Desc(Deref(wire)) :
                /\ e.name \in CDataElems => \A n \in TextNodes(e) : n.kind = "cdata"
                /\ e.name \in CharDataElems => \A n \in TextNodes(e) : n.kind = "chars"
          /\ TextsWritten(Deref(orig), Deref(wire))
    /\ op = "Unmarshal" =>
          /\ Unmarshal(Rewritten(Deref(wire), "chars")) = Res(doc, err)
          /\ Unmarshal(Rewritten(Deref(wire), "cdata")) = Res(doc, err)

\* C13 witness: an <InLine> whose Impression, Pricing, MediaFile, Tracking
\* and ClickThrough carry "x1" partly in a CDATA section and partly as plain
\* text was decoded, and each field holds "x1".
C13_Witness ==
    /\ op = "Unmarshal" /\ err = "nil" /\ IsNil(orig)
    /\ \E e \in Desc(Deref(wire)) :
          e.name = "Impression" /\ e.body = <<CData("x"), Chars("1")>>
    /\ {m.URI : m \in AllImpressions(doc)} = {"x1"}
    /\ {q.Value : q \in PricingSet(doc)} = {"x1"}
    /\ {m.URI : m \in MediaFileSet(doc)} = {"x1"}
    /\ {t.URI : t \in AllTrackings(doc)} = {"x1"}
    /\ {c.URI : c \in VideoClickSet(doc)} = {"x1"}

PayloadsOf(c) == {f \in {"Linear", "CompanionAds", "NonLinearAds"} : ~IsNil(c[f])}

\* C14: every Creative and every CreativeWrapper of a Document has at most
\* one of Linear, CompanionAds, NonLinearAds set.
C14_OneCreativePayload ==
    \A c \in CreativeSet(doc) \cup CreativeWrapperSet(doc) :
        Cardinality(PayloadsOf(c)) <= 1

\* The control attributes of Wrapper: field name and attribute name.
ControlBools ==
    {<<"FollowAdditionalWrappers", "followAdditionalWrappers">>,
     <<"AllowMultipleAds", "allowMultipleAds">>,
     <<"FallbackOnNoAd", "fallbackOnNoAd">>}

WrapperElems(w) == {e \in Desc(w) : e.name = "Wrapper"}

\* C16: followAdditionalWrappers, allowMultipleAds and fallbackOnNoAd are
\* tri-state: a <Wrapper> without the attribute decodes to an absent field,
\* an absent field is encoded as no attribute, and absent, true and false
\* each come back from decode(encode(.)) as they were.
C16_TriStateBooleans ==
    /\ (op = "Unmarshal" /\ err = "nil") =>
          \A e \in WrapperElems(Deref(wire)), b \in ControlBools :
              IsNil(AttrOf(e.attrs, b[2])) => \A x \in WrapperSet(doc) : IsNil(x[b[1]])
    /\ op = "Marshal" =>
          \A x \in WrapperSet(Deref(orig)), b \in ControlBools :
              IsNil(x[b[1]]) =>
                  \A e \in WrapperElems(Deref(wire)) : IsNil(AttrOf(e.attrs, b[2]))
    /\ RoundTripped =>
          /\ err = "nil"
          /\ Len(doc.Ads.items) = Len(Deref(orig).Ads.items)
          /\ \A i \in 1..Len(doc.Ads.items), b \in ControlBools :
                ~IsNil(Deref(orig).Ads.items[i].Wrapper) =>
                    /\ ~IsNil(doc.Ads.items[i].Wrapper)
                    /\ Deref(doc.Ads.items[i].Wrapper)[b[1]]
                          = Deref(Deref(orig).Ads.items[i].Wrapper)[b[1]]

\* C16 witness: a Wrapper with followAdditionalWrappers false, allowMultipleAds
\* absent and fallbackOnNoAd true has been encoded and decoded.
C16_Witness ==
    /\ RoundTripped /\ err = "nil"
    /\ \E x \in WrapperSet(Deref(orig)) :
          /\ x.FollowAdditionalWrappers = Some(FALSE)
          /\ IsNil(x.AllowMultipleAds)
          /\ x.FallbackOnNoAd = Some(TRUE)
    /\ \E x \in WrapperSet(doc) :
          /\ x.FollowAdditionalWrappers = Some(FALSE)
          /\ IsNil(x.AllowMultipleAds)
          /\ x.FallbackOnNoAd = Some(TRUE)
    /\ \E e \in WrapperElems(Deref(wire)) :
          AttrOf(e.attrs, "followAdditionalWrappers") = Some("false")

\* C17: decode after encode, applied to a Document that already came out of
\* decode after encode, gives that Document again.
C17_NormalizationIdempotent ==
    (RoundTripped /\ err = "nil") =>
        /\ Marshal(doc).err = "nil"
        /\ Unmarshal(Deref(Marshal(doc).wire)) = Res(doc, "nil")

\* C17 witness: a Document with an empty Ads list and a non-empty Errors list
\* was normalized: its Ads came back nil, its Errors as they were.
C17_Witness ==
    /\ RoundTripped /\ err = "nil"
    /\ Deref(orig).Ads = EmptySlice /\ doc.Ads = NilSlice
    /\ Len(doc.Errors.items) = MaxList
    /\ doc.Errors = Deref(orig).Errors

\* The lists of Document d and the same-named sibling elements of tree w
\* are in the same order.
OrderKeptLinear(l, es) ==
    /\ KeysOf(Named(Under(es, "MediaFiles"), "MediaFile"), TRUE)
          = FieldOf(ItemsOf(l.MediaFiles), "URI")
    /\ KeysOf(Named(Under(es, "TrackingEvents"), "Tracking"), TRUE)
          = FieldOf(ItemsOf(l.TrackingEvents), "URI")

OrderKeptInLine(n, es) ==
    /\ KeysOf(Named(es, "Impression"), TRUE) = FieldOf(n.Impressions.items, "URI")
    /\ KeysOf(Named(Under(es, "Creatives"), "Creative"), FALSE)
          = FieldOf(n.Creatives.items, "ID")
    /\ \A j \in 1..Len(n.Creatives.items) :
          OrderKeptLinear(Target(n.Creatives.items[j].Linear, ZeroLinear),
              Under(ElemsOf(Named(Under(es, "Creatives"), "Creative")[j].body), "Linear"))

OrderKeptWrapper(x, es) ==
    /\ KeysOf(Named(es, "Impression"), TRUE) = FieldOf(x.Impressions.items, "URI")
    /\ KeysOf(Named(Under(es, "Creatives"), "Creative"), FALSE)
          = FieldOf(ItemsOf(x.Creatives), "ID")

OrderKept(d, w) ==
    /\ KeysOf(AdElems(w), FALSE) = FieldOf(d.Ads.items, "ID")
    /\ KeysOf(Named(ElemsOf(w.body), "Error"), TRUE) = FieldOf(d.Errors.items, "CDATA")
    /\ \A i \in 1..Len(d.Ads.items) :
          /\ OrderKeptInLine(Target(d.Ads.items[i].InLine, ZeroInLine),
                             Under(ElemsOf(AdElems(w)[i].body), "InLine"))
          /\ OrderKeptWrapper(Target(d.Ads.items[i].Wrapper, ZeroWrapper),
                              Under(ElemsOf(AdElems(w)[i].body), "Wrapper"))

\* C18: the items of Ads, Errors, Impressions, Creatives, MediaFiles and
\* Tracking events are written in list order, and same-named sibling
\* elements are read in document order, also when <Ad> and <Error> elements
\* are interleaved.
C18_ListOrder ==
    /\ op = "Marshal" => OrderKept(Deref(orig), Deref(wire))
    /\ (op = "Unmarshal" /\ err = "nil") => OrderKept(doc, Deref(wire))

\* C18 witness: <Ad>, <Error>, <Ad> were received in that order and decoded
\* to the Ads a1, a3 and the Error err2.
C18_Witness ==
    /\ op = "Unmarshal" /\ err = "nil" /\ IsNil(orig)
    /\ [i \in 1..Len(ElemsOf(Deref(wire).body)) |-> ElemsOf(Deref(wire).body)[i].name]
          = <<"Ad", "Error", "Ad">>
    /\ FieldOf(doc.Ads.items, "ID") = <<"a1", "a3">>
    /\ FieldOf(doc.Errors.items, "CDATA") = <<"err2">>

\* The <Companion> elements of w below <InLine> and below <Wrapper>.
CompanionElems(w, payload) ==
    {e \in UNION {Desc(x) : x \in {y \in Desc(w) : y.name = payload}} :
        e.name = "Companion"}

WrapperCompanionSet(d) ==
    UNION {Range(Deref(c.CompanionAds).Companions.items) :
            c \in {x \in CreativeWrapperSet(d) : ~IsNil(x.CompanionAds)}}

IFrameChildren(e) == {TextOf(c.body) : c \in Kids(e, "IFrameResource")}

\* C19: the IFrameResource of a Companion and of a CompanionWrapper is the
\* text of an <IFrameResource> child of <Companion>: a non-empty one is
\* written as that child, and that child is read into the field.
C19_IFrameResourceElement ==
    /\ op = "Marshal" =>
          /\ \A k \in InLineCompanionSet(Deref(orig)) :
                k.IFrameResource # "" =>
                    \E e \in CompanionElems(Deref(wire), "InLine") :
                        IFrameChildren(e) = {k.IFrameResource}
          /\ \A k \in WrapperCompanionSet(Deref(orig)) :
                k.IFrameResource # "" =>
                    \E e \in CompanionElems(Deref(wire), "Wrapper") :
                        IFrameChildren(e) = {k.IFrameResource}
    /\ (op = "Unmarshal" /\ err = "nil") =>
          /\ \A e \in CompanionElems(Deref(wire), "InLine") :
                IFrameChildren(e) # {} =>
                    \E k \in InLineCompanionSet(doc) : k.IFrameResource \in IFrameChildren(e)
          /\ \A e \in CompanionElems(Deref(wire), "Wrapper") :
                IFrameChildren(e) # {} =>
                    \E k \in WrapperCompanionSet(doc) : k.IFrameResource \in IFrameChildren(e)

\* The six dimensions: field name and attribute name.
DimensionAttrs ==
    {<<"Width", "width">>, <<"Height", "height">>, <<"AssetWidth", "assetWidth">>,
     <<"AssetHeight", "assetHeight">>, <<"ExpandedWidth", "expandedWidth">>,
     <<"ExpandedHeight", "expandedHeight">>}

DimensionsOf(k) ==
    <<k.Width, k.Height, k.AssetWidth, k.AssetHeight, k.ExpandedWidth, k.ExpandedHeight>>

\* C20: a Companion is written without the dimension attributes whose value
\* is 0 and with the others; a CompanionWrapper is written with all six, "0"
\* for an unset one; decode(encode(.)) gives the same six integers for both.
C20_DimensionAttributes ==
    /\ op = "Marshal" =>
          /\ \A k \in InLineCompanionSet(Deref(orig)) :
                \E e \in CompanionElems(Deref(wire), "InLine") :
                    \A a \in DimensionAttrs :
                        AttrOf(e.attrs, a[2]) =
                            IF k[a[1]] = 0 THEN None ELSE Some(FormatInt(k[a[1]]))
          /\ \A k \in WrapperCompanionSet(Deref(orig)) :
                \E e \in CompanionElems(Deref(wire), "Wrapper") :
                    \A a \in DimensionAttrs :
                        AttrOf(e.attrs, a[2]) = Some(FormatInt(k[a[1]]))
    /\ RoundTripped =>
          /\ err = "nil"
          /\ {DimensionsOf(k) : k \in InLineCompanionSet(doc)}
                = {DimensionsOf(k) : k \in InLineCompanionSet(Deref(orig))}
          /\ {DimensionsOf(k) : k \in WrapperCompanionSet(doc)}
                = {DimensionsOf(k) : k \in WrapperCompanionSet(Deref(orig))}

\* C20 witness: a CompanionWrapper of width 300 and height 0 was written
\* with width="300" and height="0", and read back with the same dimensions.
C20_Witness ==
    /\ RoundTripped /\ err = "nil"
    /\ \E k \in WrapperCompanionSet(Deref(orig)) :
          /\ k.Width = 300 /\ k.Height = 0
          /\ k \in WrapperCompanionSet(doc)
    /\ \E e \in CompanionElems(Deref(wire), "Wrapper") :
          /\ AttrOf(e.attrs, "width") = Some(<<"3", "0", "0">>)
          /\ AttrOf(e.attrs, "height") = Some(<<"0">>)

\* The result of the call made alone.
Alone(name, x) == IF name = "Marshal" THEN Marshal(x) ELSE Unmarshal(x)

====
